---- MODULE Spec2Model ----
(***************************************************************************)
(* r2logs: a command-line client that loads five credentials from the      *)
(* environment, resolves a time range, builds one endpoint and issues one  *)
(* authenticated GET.  The repository holds two generations of the code:   *)
(* the monolithic src/src/main.rs (variant "main") and the split modules   *)
(* config.rs / commands.rs / api.rs (variant "lib").  Both are modelled.   *)
(* api.rs loads the credentials of the request by its own ApiEnv::new,     *)
(* whose API key is the variable CLOUDFLARE_API_KEY.                       *)
(*                                                                         *)
(* Representation.  Rust Strings that are only concatenated are TLA+       *)
(* strings.  A string the code parses character by character (a datetime   *)
(* argument) is a sequence of one-character strings.  A response body is a *)
(* sequence of bytes (0..255) and a decoded text a sequence of Unicode     *)
(* code points.  An instant is [day, sod, ms]: the days since 1970-01-01,  *)
(* the second of the day and the milliseconds, ms in 1000..1999 being      *)
(* chrono's representation of a leap second.                               *)
(***************************************************************************)
EXTENDS Integers, Sequences, FiniteSets, TLC

VARIABLES
    variant,    \* "main": main.rs::main runs; "lib": the module functions run
    pc,         \* position of the run
    environ,    \* the process environment, per variable name
    env,        \* the loaded Env struct
    api_env,    \* the loaded ApiEnv struct
    args,       \* the command line as clap hands it over (Args)
    reads,      \* the readings Utc::now() returned, in order
    parsed,     \* ParsedArgs
    endpoint,   \* the endpoint string
    requests,   \* the HTTP requests handed to send(), in order
    response,   \* what the network has answered to the request so far
    result,     \* the Result that fetch_logs / main returned
    out,        \* the lines written to stdout and stderr, in order
    exit        \* the exit code of the process, -1 while it runs

vars == <<variant, pc, environ, env, api_env, args, reads, parsed, endpoint,
          requests, response, result, out, exit>>

(***************************************************************************)
(* Bounds of the model.                                                    *)
(***************************************************************************)
MaxTick == 1    \* largest advance of the clock between two readings, in ms

(***************************************************************************)
(* Strings.                                                                *)
(***************************************************************************)
RECURSIVE Str(_)
\* The String made of the characters cs.
Str(cs) == IF cs = <<>> THEN "" ELSE Head(cs) \o Str(Tail(cs))

RECURSIVE join(_, _)
\* Vec<String>::join(sep).
join(v, sep) ==
    IF v = <<>> THEN ""
    ELSE IF Len(v) = 1 THEN v[1]
    ELSE v[1] \o sep \o join(Tail(v), sep)

DigitChars == <<"0", "1", "2", "3", "4", "5", "6", "7", "8", "9">>
Digits == {DigitChars[i] : i \in 1..10}
DigitChar(d) == DigitChars[d + 1]
DigitVal(c) == CHOOSE d \in 0..9 : DigitChars[d + 1] = c

\* {:02} and {:04} of a number that fits.
Pad2(n) == <<DigitChar((n \div 10) % 10), DigitChar(n % 10)>>
Pad4(n) == <<DigitChar((n \div 1000) % 10), DigitChar((n \div 100) % 10)>> \o Pad2(n)

RECURSIVE Decimal(_)
\* Display / Debug of an unsigned integer.
Decimal(n) == IF n < 10 THEN DigitChar(n) ELSE Decimal(n \div 10) \o DigitChar(n % 10)

RECURSIVE DecimalChars(_)
\* The decimal digits of an unsigned integer, as characters.
DecimalChars(n) ==
    IF n < 10 THEN <<DigitChar(n)>>
    ELSE Append(DecimalChars(n \div 10), DigitChar(n % 10))

\* chrono's year: four digits from 0000 to 9999, and outside of that {:+05},
\* a sign and at least four digits.
YearChars(y) ==
    IF y >= 0 /\ y <= 9999 THEN Pad4(y)
    ELSE LET a == IF y < 0 THEN -y ELSE y
         IN  <<IF y < 0 THEN "-" ELSE "+">>
             \o (IF a <= 9999 THEN Pad4(a) ELSE DecimalChars(a))

\* The ESC character of the colour sequences, which a TLA+ string cannot hold.
ESC == "\\x1b"
Green(s) == ESC \o "[32m" \o s \o ESC \o "[0m"
\* {:?} of a String without characters that need escaping.
DebugStr(s) == "\"" \o s \o "\""

(***************************************************************************)
(* Calendar arithmetic of chrono (proleptic Gregorian, UTC).               *)
(***************************************************************************)
IsLeapYear(y) == (y % 4 = 0 /\ y % 100 # 0) \/ y % 400 = 0

DaysInMonth(y, m) ==
    IF m = 2 THEN (IF IsLeapYear(y) THEN 29 ELSE 28)
    ELSE IF m \in {4, 6, 9, 11} THEN 30 ELSE 31

\* Days since 1970-01-01 of the civil date y-m-d.
DaysFromCivil(y, m, d) ==
    LET yy  == IF m <= 2 THEN y - 1 ELSE y
        era == yy \div 400
        yoe == yy - era * 400
        mp  == IF m > 2 THEN m - 3 ELSE m + 9
        doy == (153 * mp + 2) \div 5 + d - 1
        doe == yoe * 365 + yoe \div 4 - yoe \div 100 + doy
    IN  era * 146097 + doe - 719468

\* The civil date of a day number.
CivilFromDays(z) ==
    LET zz  == z + 719468
        era == zz \div 146097
        doe == zz - era * 146097
        yoe == (doe - doe \div 1460 + doe \div 36524 - doe \div 146096) \div 365
        doy == doe - (365 * yoe + yoe \div 4 - yoe \div 100)
        mp  == (5 * doy + 2) \div 153
        d   == doy - (153 * mp + 2) \div 5 + 1
        m   == IF mp < 10 THEN mp + 3 ELSE mp - 9
        y   == yoe + era * 400 + (IF m <= 2 THEN 1 ELSE 0)
    IN  [year |-> y, month |-> m, day |-> d]

\* The fields chrono formats: a leap second shows as second 60.
FieldsOf(c, sod, ms) ==
    [year |-> c.year, month |-> c.month, day |-> c.day,
     hour |-> sod \div 3600, minute |-> (sod % 3600) \div 60,
     second |-> (sod % 60) + (IF ms >= 1000 THEN 1 ELSE 0)]

\* The instant of the second secs of the day day, secs below 0 or above
\* 86399 carried into the day.
At(day, secs, ms) ==
    [day |-> day + secs \div 86400, sod |-> secs % 86400, ms |-> ms]

\* Fields with the instant rounded to the nearest second.
Fields_rounding(dt) ==
    LET up == At(dt.day, dt.sod + (IF dt.ms % 1000 >= 500 THEN 1 ELSE 0), dt.ms)
    IN  FieldsOf(CivilFromDays(up.day), up.sod, up.ms)

Fields(dt) == FieldsOf(CivilFromDays(dt.day), dt.sod, dt.ms)

\* Args::format_datetime: datetime.format("%Y-%m-%dT%H:%M:%SZ"), as characters.
strftime(f) ==
    YearChars(f.year) \o <<"-">> \o Pad2(f.month) \o <<"-">> \o Pad2(f.day) \o <<"T">>
    \o Pad2(f.hour) \o <<":">> \o Pad2(f.minute) \o <<":">> \o Pad2(f.second)
    \o <<"Z">>

format_datetime_chars(dt) == strftime(Fields(dt))

format_datetime(dt) == Str(format_datetime_chars(dt))

\* DateTime<Utc>::to_rfc3339_opts(SecondsFormat::Secs, true): date, 'T', time
\* without fraction, and "Z" for the zero offset of Utc.
write_rfc3339(f) ==
    LET date == YearChars(f.year) \o <<"-">> \o Pad2(f.month) \o <<"-">> \o Pad2(f.day)
        time == Pad2(f.hour) \o <<":">> \o Pad2(f.minute) \o <<":">> \o Pad2(f.second)
    IN  date \o <<"T">> \o time \o <<"Z">>

to_rfc3339_opts_chars(dt) == write_rfc3339(Fields(dt))

to_rfc3339_opts(dt) == Str(to_rfc3339_opts_chars(dt))

FiveMinutes == 300

\* dt - Duration::minutes(5).
MinusFiveMinutes(dt) == At(dt.day, dt.sod - FiveMinutes, dt.ms)

\* The clock reading that follows dt by tick milliseconds.
Advance(dt, tick) ==
    At(dt.day, dt.sod + (dt.ms + tick) \div 1000, (dt.ms + tick) % 1000)

(***************************************************************************)
(* str::parse::<DateTime<Utc>>, which is also the value parser clap takes  *)
(* for an argument of type DateTime<Utc>: chrono's FromStr, the relaxed    *)
(* RFC 3339 parser parse_rfc3339_relaxed.  It reads the items              *)
(*   year - month - day, one of "T" "t" " ", hour : minute : second,       *)
(*   an optional fraction, and an offset ("Z", "z", "UTC" or a signed      *)
(*   hh[:]mm)                                                              *)
(* with white space allowed before every number, before "-" and ":" and    *)
(* the offset and after the string.  An unsigned year has one to four      *)
(* digits, a signed year any number; the other numbers have one or two.    *)
(* A character is a one-character string; a character that a TLA+ string   *)
(* cannot hold is named by its code point, as in "U+2212".  The fraction   *)
(* is kept to the millisecond, the model's resolution.  A second of 60 is  *)
(* a leap second.                                                          *)
(***************************************************************************)
Malformed == [ok |-> FALSE, dt |-> At(0, 0, 0)]

\* char::is_whitespace.
WhiteSpace ==
    {" ", "\t", "\n", "\r", "\f", "U+000B", "U+0085", "U+00A0", "U+1680",
     "U+2000", "U+2001", "U+2002", "U+2003", "U+2004", "U+2005", "U+2006",
     "U+2007", "U+2008", "U+2009", "U+200A", "U+2028", "U+2029", "U+202F",
     "U+205F", "U+3000"}

\* The character of t at position i, "" past the end.
CharAt(t, i) == IF i >= 1 /\ i <= Len(t) THEN t[i] ELSE ""

AllDigits(t, from, to) == \A i \in from..to : CharAt(t, i) \in Digits

Num2(t, i) == DigitVal(t[i]) * 10 + DigitVal(t[i + 1])
Num4(t, i) == Num2(t, i) * 100 + Num2(t, i + 2)

RECURSIVE trim_start(_, _)
\* str::trim_start from position i on: the position of the first character
\* that is not white space.
trim_start(t, i) ==
    IF i <= Len(t) /\ t[i] \in WhiteSpace THEN trim_start(t, i + 1) ELSE i

RECURSIVE DigitRun(_, _)
\* The number of digits of t from position i on.
DigitRun(t, i) ==
    IF i <= Len(t) /\ t[i] \in Digits THEN 1 + DigitRun(t, i + 1) ELSE 0

RECURSIVE LeadingZeros(_, _, _)
\* How many of the n digits of t from position i on are leading zeros.
LeadingZeros(t, i, n) ==
    IF n > 0 /\ t[i] = "0" THEN 1 + LeadingZeros(t, i + 1, n - 1) ELSE 0

RECURSIVE DigitsLeq(_, _, _, _)
\* The digits of t from position i on, as many as lim has from position j
\* on, write a number that is at most the one those digits of lim write.
DigitsLeq(t, i, lim, j) ==
    IF j > Len(lim) THEN TRUE
    ELSE IF DigitVal(t[i]) < DigitVal(lim[j]) THEN TRUE
    ELSE IF DigitVal(t[i]) > DigitVal(lim[j]) THEN FALSE
    ELSE DigitsLeq(t, i + 1, lim, j + 1)

\* The digits of i64::MAX, 9223372036854775807.
I64_MAX ==
    <<"9", "2", "2", "3", "3", "7", "2", "0", "3", "6",
      "8", "5", "4", "7", "7", "5", "8", "0", "7">>

\* The digits of i32::MAX, 2147483647.
I32_MAX == <<"2", "1", "4", "7", "4", "8", "3", "6", "4", "7">>

\* The digits of the magnitude of i32::MIN, 2147483648.
I32_MIN_ABS == <<"2", "1", "4", "7", "4", "8", "3", "6", "4", "8">>

\* The n digits of t from position i on write a number that is at most the
\* one the digits lim write.
AtMost(t, i, n, lim) ==
    LET z == LeadingZeros(t, i, n)
    IN  \/ n - z < Len(lim)
        \/ n - z = Len(lim) /\ DigitsLeq(t, i + z, lim, 1)

RECURSIVE NumRun(_, _, _)
\* The number written by the n digits of t from position i on, as the loop
\* of scan::number accumulates it.
NumRun(t, i, n) ==
    IF n = 0 THEN 0
    ELSE NumRun(t, i, n - 1) * 10 + DigitVal(t[i + n - 1])

\* scan::number(s, min, max) at position i: at least min and at most max
\* digits, accumulated in an i64 with checked_mul and checked_add, so that
\* a number above i64::MAX is an error.  [ok, wide, v, next]: v is the
\* number, or, when wide, the significant digits of a number above
\* i32::MAX that an i64 holds.
scan_number(t, i, min, max) ==
    LET run == DigitRun(t, i)
        n == IF run > max THEN max ELSE run
        z == LeadingZeros(t, i, n)
    IN  IF n < min \/ ~AtMost(t, i, n, I64_MAX)
        THEN [ok |-> FALSE, wide |-> FALSE, v |-> 0, next |-> i]
        ELSE IF AtMost(t, i, n, I32_MAX)
        THEN [ok |-> TRUE, wide |-> FALSE, v |-> NumRun(t, i, n), next |-> i + n]
        ELSE [ok |-> TRUE, wide |-> TRUE,
              v |-> SubSeq(t, i + z, i + n - 1), next |-> i + n]

\* The milliseconds of the fraction whose n digits start at position i.
FractionMs(t, i, n) ==
    (IF n >= 1 THEN DigitVal(t[i]) * 100 ELSE 0)
    + (IF n >= 2 THEN DigitVal(t[i + 1]) * 10 ELSE 0)
    + (IF n >= 3 THEN DigitVal(t[i + 2]) ELSE 0)

RECURSIVE colon_or_space(_, _)
\* scan::colon_or_space: past every colon and white space from position i on.
colon_or_space(t, i) ==
    IF i <= Len(t) /\ (t[i] = ":" \/ t[i] \in WhiteSpace)
    THEN colon_or_space(t, i + 1) ELSE i

\* scan::timezone_offset with "Z" allowed, at position i: a sign ("+", "-"
\* or the minus sign U+2212), two digits of hours, colons or white space,
\* two digits of minutes below 60.  [ok, secs, next].
timezone_offset(t, i) ==
    IF CharAt(t, i) \in {"Z", "z"} THEN [ok |-> TRUE, secs |-> 0, next |-> i + 1]
    ELSE IF ~(CharAt(t, i) \in {"+", "-", "U+2212"} /\ AllDigits(t, i + 1, i + 2))
    THEN [ok |-> FALSE, secs |-> 0, next |-> i]
    ELSE LET m == colon_or_space(t, i + 3)
         IN  IF ~(AllDigits(t, m, m + 1) /\ DigitVal(t[m]) <= 5)
             THEN [ok |-> FALSE, secs |-> 0, next |-> i]
             ELSE [ok |-> TRUE,
                   secs |-> (IF t[i] = "+" THEN 1 ELSE -1)
                            * (Num2(t, i + 1) * 3600 + Num2(t, m) * 60),
                   next |-> m + 2]

\* The offset at position i: "UTC" in any case, or timezone_offset.
ParseOffset(t, i) ==
    IF /\ CharAt(t, i) \in {"U", "u"} /\ CharAt(t, i + 1) \in {"T", "t"}
       /\ CharAt(t, i + 2) \in {"C", "c"}
    THEN [ok |-> TRUE, secs |-> 0, next |-> i + 3]
    ELSE timezone_offset(t, i)

\* The items of the date and of the time.
Numeric(spec) == [kind |-> "Numeric", spec |-> spec]
Space == [kind |-> "Space", spec |-> ""]
Literal(c) == [kind |-> "Literal", spec |-> c]
Nanosecond == [kind |-> "Nanosecond", spec |-> ""]

DATE_ITEMS ==
    <<Numeric("year"), Space, Literal("-"), Numeric("month"), Space,
      Literal("-"), Numeric("day")>>
TIME_ITEMS ==
    <<Numeric("hour"), Space, Literal(":"), Numeric("minute"), Space,
      Literal(":"), Numeric("second"), Nanosecond, Space>>

\* Parsed::new(), with the position of the scan.
NewParsed ==
    [ok |-> TRUE, pos |-> 1, year |-> 0, month |-> 0, day |-> 0, hour |-> 0,
     minute |-> 0, second |-> 0, ms |-> 0]

\* The year at position i: a sign and digits, or one to four digits, and
\* the i32::try_from of Parsed::set_year, which a year outside i32 fails.
\* [ok, v, next].
ParseYear(t, i) ==
    IF CharAt(t, i) \in {"+", "-"}
    THEN LET n == CHOOSE r \in {scan_number(t, i + 1, 1, Len(t))} : TRUE
         IN  IF ~n.ok THEN [ok |-> FALSE, v |-> 0, next |-> i]
             ELSE IF ~n.wide
             THEN [ok |-> TRUE, v |-> IF t[i] = "-" THEN -n.v ELSE n.v,
                   next |-> n.next]
             ELSE IF t[i] = "-" /\ n.v = I32_MIN_ABS
             THEN [ok |-> TRUE, v |-> -2147483647 - 1, next |-> n.next]
             ELSE [ok |-> FALSE, v |-> 0, next |-> i]
    ELSE scan_number(t, i, 1, 4)

\* The values Parsed::set_month, set_day, set_hour, set_minute and
\* set_second accept; set_year accepts every i32.
InRange(spec, v) ==
    CASE spec = "month" -> v \in 1..12
      [] spec = "day" -> v \in 1..31
      [] spec = "hour" -> v \in 0..23
      [] spec = "minute" -> v \in 0..59
      [] spec = "second" -> v \in 0..60
      [] OTHER -> TRUE

\* What a number of the kind spec, read at position i, leaves of the state:
\* a number that did not scan, or that the setter of the field refuses,
\* ends the parse with the field unset.
SetNumeric(st, spec, n) ==
    IF ~n.ok THEN [st EXCEPT !.ok = FALSE]
    ELSE IF ~InRange(spec, n.v) THEN [st EXCEPT !.ok = FALSE]
    ELSE [st EXCEPT ![spec] = n.v, !.pos = n.next]

\* One item of parse_internal applied to the state st.
ParseItem(t, st, item) ==
    CASE item.kind = "Space" -> [st EXCEPT !.pos = trim_start(t, st.pos)]
      [] item.kind = "Literal" ->
            IF CharAt(t, st.pos) = item.spec THEN [st EXCEPT !.pos = st.pos + 1]
            ELSE [st EXCEPT !.ok = FALSE]
      [] item.kind = "Numeric" ->
            SetNumeric(st, item.spec,
                       IF item.spec = "year" THEN ParseYear(t, trim_start(t, st.pos))
                       ELSE scan_number(t, trim_start(t, st.pos), 1, 2))
      [] item.kind = "Nanosecond" ->
            IF CharAt(t, st.pos) # "." THEN st
            ELSE IF DigitRun(t, st.pos + 1) = 0 THEN [st EXCEPT !.ok = FALSE]
            ELSE [st EXCEPT !.ms = FractionMs(t, st.pos + 1, DigitRun(t, st.pos + 1)),
                            !.pos = st.pos + 1 + DigitRun(t, st.pos + 1)]

RECURSIVE parse_internal(_, _, _)
\* format::parse_internal: the items in order, until one fails.
parse_internal(t, st, items) ==
    IF items = <<>> \/ ~st.ok THEN st
    ELSE parse_internal(t,
             CHOOSE next \in {ParseItem(t, s, Head(items)) : s \in {st}} : TRUE,
             Tail(items))

\* Parsed::to_datetime: the fields are a date and a time of chrono's range
\* (years -262143 to 262142), the offset is below a day, and the instant in
\* UTC is in that range too.
to_datetime(st, secs) ==
    IF ~(/\ st.year >= -262143 /\ st.year <= 262142
         /\ st.month \in 1..12
         /\ st.day >= 1 /\ st.day <= DaysInMonth(st.year, st.month)
         /\ st.hour <= 23 /\ st.minute <= 59 /\ st.second <= 60
         /\ secs > -86400 /\ secs < 86400)
    THEN Malformed
    ELSE LET dt == At(DaysFromCivil(st.year, st.month, st.day),
                      st.hour * 3600 + st.minute * 60
                      + (IF st.second = 60 THEN 59 ELSE st.second) - secs,
                      st.ms + (IF st.second = 60 THEN 1000 ELSE 0))
         IN  IF dt.day < DaysFromCivil(-262143, 1, 1)
                \/ dt.day > DaysFromCivil(262142, 12, 31)
             THEN Malformed
             ELSE [ok |-> TRUE, dt |-> dt]

\* The offset and the end of the string, after the time tm.
ParseAfterTime(t, tm) ==
    CHOOSE r \in
        {IF off.ok /\ trim_start(t, off.next) > Len(t)
         THEN to_datetime(tm, off.secs)
         ELSE Malformed :
           off \in {ParseOffset(t, tm.pos)}} : TRUE

\* The separator and the time, after the date d.
ParseAfterDate(t, d) ==
    CHOOSE r \in
        {IF tm.ok /\ tm.pos <= Len(t) THEN ParseAfterTime(t, tm) ELSE Malformed :
           tm \in {parse_internal(t, [d EXCEPT !.pos = d.pos + 1], TIME_ITEMS)}} :
        TRUE

\* parse_rfc3339_relaxed and FromStr: date, separator, time, offset, and
\* nothing but white space after it.
parse_datetime(t) ==
    CHOOSE r \in
        {IF d.ok /\ CharAt(t, d.pos) \in {"T", "t", " "}
         THEN ParseAfterDate(t, d)
         ELSE Malformed :
           d \in {parse_internal(t, NewParsed, DATE_ITEMS)}} : TRUE

(***************************************************************************)
(* The environment and the credential loader.                              *)
(***************************************************************************)
VarNames ==
    <<"CF_API_KEY", "R2_ACCESS_KEY_ID", "R2_SECRET_ACCESS_KEY", "CF_ACCOUNT_ID",
      "BUCKET_NAME">>

\* The variables of api.rs ApiEnv::new, in its order.
ApiVarNames == <<"CLOUDFLARE_API_KEY", "R2_ACCESS_KEY_ID", "R2_SECRET_ACCESS_KEY">>

Names ==
    {VarNames[i] : i \in 1..Len(VarNames)}
    \cup {ApiVarNames[i] : i \in 1..Len(ApiVarNames)}

\* The values a variable may be set to in the model.
Values(name) ==
    CASE name = "CF_API_KEY"           -> {"key-1", "key-2"}
      [] name = "CLOUDFLARE_API_KEY"   -> {"key-1", "key-2"}
      [] name = "R2_ACCESS_KEY_ID"     -> {"id-1"}
      [] name = "R2_SECRET_ACCESS_KEY" -> {"secret-1"}
      [] name = "CF_ACCOUNT_ID"        -> {"acct-1", "acct-2"}
      [] name = "BUCKET_NAME"          -> {"logs-2"}

\* A variable is absent, holds bytes that are not valid Unicode, or holds a
\* string.
Unset      == [state |-> "unset", val |-> ""]
NotUnicode == [state |-> "not_unicode", val |-> ""]
SetTo(v)   == [state |-> "set", val |-> v]

Entries(name) == {Unset, NotUnicode} \cup {SetTo(v) : v \in Values(name)}

Environs ==
    {[n \in Names |->
        CASE n = "CF_API_KEY"           -> e1
          [] n = "R2_ACCESS_KEY_ID"     -> e2
          [] n = "R2_SECRET_ACCESS_KEY" -> e3
          [] n = "CF_ACCOUNT_ID"        -> e4
          [] n = "BUCKET_NAME"          -> e5
          [] n = "CLOUDFLARE_API_KEY"   -> e6] :
        e1 \in Entries("CF_API_KEY"), e2 \in Entries("R2_ACCESS_KEY_ID"),
        e3 \in Entries("R2_SECRET_ACCESS_KEY"), e4 \in Entries("CF_ACCOUNT_ID"),
        e5 \in Entries("BUCKET_NAME"), e6 \in Entries("CLOUDFLARE_API_KEY")}

\* std::env::var: Ok(value), Err(NotPresent) or Err(NotUnicode).
env_var(e, name) ==
    IF e[name].state = "set" THEN [ok |-> TRUE, val |-> e[name].val]
    ELSE [ok |-> FALSE, val |-> ""]

EmptyEnv ==
    [cf_api_key |-> "", r2_access_key_id |-> "", r2_secret_access_key |-> "",
     cf_account_id |-> "", bucket_name |-> ""]

\* main.rs Env::get_env_var: the value, and error_messages after the call.
get_env_var(e, var_name, error_messages) ==
    LET r == env_var(e, var_name)
    IN  IF r.ok THEN [value |-> r.val, errors |-> error_messages]
        ELSE [value |-> "",
              errors |-> Append(error_messages, var_name \o " is not set")]

\* main.rs Env::new made to stop at the first variable it cannot read.
main_Env_new_failfast(e) ==
    LET bad == SelectSeq(VarNames, LAMBDA n : ~env_var(e, n).ok)
    IN  IF bad = <<>>
        THEN [ok |-> TRUE, err |-> "",
              env |-> [cf_api_key |-> e["CF_API_KEY"].val,
                       r2_access_key_id |-> e["R2_ACCESS_KEY_ID"].val,
                       r2_secret_access_key |-> e["R2_SECRET_ACCESS_KEY"].val,
                       cf_account_id |-> e["CF_ACCOUNT_ID"].val,
                       bucket_name |-> e["BUCKET_NAME"].val]]
        ELSE [ok |-> FALSE, err |-> bad[1] \o " is not set", env |-> EmptyEnv]

\* main.rs Env::new.
main_Env_new(e) ==
    LET r1 == get_env_var(e, "CF_API_KEY", <<>>)
        r2 == get_env_var(e, "R2_ACCESS_KEY_ID", r1.errors)
        r3 == get_env_var(e, "R2_SECRET_ACCESS_KEY", r2.errors)
        r4 == get_env_var(e, "CF_ACCOUNT_ID", r3.errors)
        r5 == get_env_var(e, "BUCKET_NAME", r4.errors)
    IN  IF Len(r5.errors) = 0
        THEN [ok |-> TRUE, err |-> "",
              env |-> [cf_api_key |-> r1.value, r2_access_key_id |-> r2.value,
                       r2_secret_access_key |-> r3.value,
                       cf_account_id |-> r4.value, bucket_name |-> r5.value]]
        ELSE [ok |-> FALSE, err |-> join(r5.errors, "\n"), env |-> EmptyEnv]

\* config.rs Env::get_env_var_or_default.
get_env_var_or_default(e, var_name, error_vec) ==
    LET r == env_var(e, var_name)
    IN  IF r.ok THEN [value |-> r.val, errors |-> error_vec]
        ELSE [value |-> "", errors |-> Append(error_vec, var_name \o " is not set")]

\* config.rs Env::new.
Env_new(e) ==
    LET r1 == get_env_var_or_default(e, "CF_API_KEY", <<>>)
        r2 == get_env_var_or_default(e, "R2_ACCESS_KEY_ID", r1.errors)
        r3 == get_env_var_or_default(e, "R2_SECRET_ACCESS_KEY", r2.errors)
        r4 == get_env_var_or_default(e, "CF_ACCOUNT_ID", r3.errors)
        r5 == get_env_var_or_default(e, "BUCKET_NAME", r4.errors)
    IN  IF r5.errors # <<>>
        THEN [ok |-> FALSE, err |-> join(r5.errors, "\n"), env |-> EmptyEnv]
        ELSE [ok |-> TRUE, err |-> "",
              env |-> [cf_api_key |-> r1.value, r2_access_key_id |-> r2.value,
                       r2_secret_access_key |-> r3.value,
                       cf_account_id |-> r4.value, bucket_name |-> r5.value]]

EmptyApiEnv ==
    [cf_api_key |-> "", r2_access_key_id |-> "", r2_secret_access_key |-> ""]

\* api.rs ApiEnv::new.
ApiEnv_new(e) ==
    LET r1 == get_env_var_or_default(e, "CLOUDFLARE_API_KEY", <<>>)
        r2 == get_env_var_or_default(e, "R2_ACCESS_KEY_ID", r1.errors)
        r3 == get_env_var_or_default(e, "R2_SECRET_ACCESS_KEY", r2.errors)
    IN  IF r3.errors # <<>>
        THEN [ok |-> FALSE, err |-> join(r3.errors, "\n"), env |-> EmptyApiEnv]
        ELSE [ok |-> TRUE, err |-> "",
              env |-> [cf_api_key |-> r1.value, r2_access_key_id |-> r2.value,
                       r2_secret_access_key |-> r3.value]]

(***************************************************************************)
(* Output lines: the stream, the formatted string, and a text argument     *)
(* (code points) appended to it.                                           *)
(***************************************************************************)
Line(stream, s) == [stream |-> stream, fmt |-> s, text |-> <<>>]
LineText(stream, s, text) == [stream |-> stream, fmt |-> s, text |-> text]

\* What the caller of Env::new writes when loading fails.
EnvFailureLines(e) ==
    <<Line("stderr", e), Line("stdout", ""),
      Line("stderr", "Please set environment variables")>>

\* What the caller of ApiEnv::new writes when loading fails: the message and
\* the hint.
ApiEnvFailureLines(e) ==
    <<Line("stderr", e), Line("stderr", "Please set environment variables")>>

(***************************************************************************)
(* The command line and the time-range resolver.                           *)
(***************************************************************************)
None == [some |-> FALSE, v |-> <<>>]
Some(v) == [some |-> TRUE, v |-> v]

T_1500 ==
    <<"2", "0", "2", "4", "-", "0", "1", "-", "1", "1", "T",
      "1", "5", ":", "0", "0", ":", "0", "0", "Z">>
T_1505 ==
    <<"2", "0", "2", "4", "-", "0", "1", "-", "1", "1", "T",
      "1", "5", ":", "0", "5", ":", "0", "0", "Z">>
\* 2024-03-01T08:59:59.75+09:00, the instant 2024-02-29T23:59:59.750Z
T_offset ==
    <<"2", "0", "2", "4", "-", "0", "3", "-", "0", "1", "T",
      "0", "8", ":", "5", "9", ":", "5", "9", ".", "7", "5",
      "+", "0", "9", ":", "0", "0">>
\* month 13
T_bad ==
    <<"2", "0", "2", "4", "-", "1", "3", "-", "1", "1", "T",
      "1", "5", ":", "0", "0", ":", "0", "0", "Z">>

\* 0000-01-01T00:30:00+01:00, an instant of the year before 0000
T_year0 ==
    <<"0", "0", "0", "0", "-", "0", "1", "-", "0", "1", "T",
      "0", "0", ":", "3", "0", ":", "0", "0", "+", "0", "1", ":", "0", "0">>
\* 2016-12-31T23:59:60.5Z, in the leap second
T_leap ==
    <<"2", "0", "1", "6", "-", "1", "2", "-", "3", "1", "T",
      "2", "3", ":", "5", "9", ":", "6", "0", ".", "5", "Z">>

\* 2024-1-11 15:05:00 +0900, the instant 2024-01-11T06:05:00Z in a form that
\* chrono accepts beyond RFC 3339: a one-digit month, spaces, no colon in the
\* offset
T_relaxed ==
    <<"2", "0", "2", "4", "-", "1", "-", "1", "1", " ",
      "1", "5", ":", "0", "5", ":", "0", "0", " ", "+", "0", "9", "0", "0">>

StartInputs == {T_1500, T_offset, T_year0, T_bad}
EndInputs == {T_1505, T_leap, T_relaxed, T_bad}

CommandOptions == {"None", "Retrieve", "List"}

\* What the command line holds besides the arguments that Args declares:
\* nothing, an option that Args does not declare, or one of the options that
\* #[command(version)] and clap's help add.
Rest == {"", "--bogus", "--help", "--version"}

\* The command lines: the first positional argument is START_TIME, so that
\* an end comes with a start; the command lines that hold something else
\* hold nothing of the declared arguments.
ArgsSet ==
    {a \in [start_time : {None} \cup {Some(t) : t \in StartInputs},
            end_time   : {None} \cup {Some(t) : t \in EndInputs},
            verbose    : BOOLEAN,
            commands   : CommandOptions,
            rest       : Rest] :
        /\ a.end_time.some => a.start_time.some
        /\ a.rest # "" => ~a.start_time.some /\ ~a.verbose /\ a.commands = "None"}

NoArgs == [start_time |-> None, end_time |-> None, verbose |-> FALSE,
           commands |-> "None", rest |-> ""]
NoParsed == [start_time |-> "", end_time |-> "", verbose |-> FALSE,
             commands |-> "None"]

\* Readings of Utc::now(): 2024-01-01T00:02:00.500Z (five minutes earlier is
\* in 2023) and 2024-02-29T23:59:59.999Z (one millisecond before the next
\* second, day and month).
NowSet == {At(19723, 120, 500), At(19782, 86399, 999)}

\* resolve with the default start taken as now, the five minutes forgotten.
resolve_no_window(self, clock, sp, ep) ==
    LET nstart == IF self.start_time.some THEN 0 ELSE 1
        nend == IF self.end_time.some THEN 0 ELSE 1
    IN  IF (self.start_time.some /\ ~sp.ok) \/ (self.end_time.some /\ ~ep.ok)
        THEN [panicked |-> TRUE, reads |-> <<>>, parsed |-> NoParsed]
        ELSE [panicked |-> FALSE, reads |-> SubSeq(clock, 1, nstart + nend),
              parsed |->
                [start_time |-> format_datetime(
                                    IF self.start_time.some THEN sp.dt ELSE clock[1]),
                 end_time   |-> format_datetime(
                                    IF self.end_time.some THEN ep.dt
                                    ELSE clock[nstart + 1]),
                 verbose |-> self.verbose, commands |-> self.commands]]

\* main.rs Args::parse_and_check on the readings clock[1], clock[2] that
\* Utc::now() returns when called: the readings taken, whether an unwrap
\* panicked, and ParsedArgs.  sp and ep are what the two str::parse calls
\* return.
resolve(self, clock, sp, ep) ==
    LET start_panics == self.start_time.some /\ ~sp.ok
        end_panics == self.end_time.some /\ ~ep.ok
        nstart == IF self.start_time.some THEN 0 ELSE 1
        nend == IF self.end_time.some THEN 0 ELSE 1
    IN  IF start_panics
        THEN [panicked |-> TRUE, reads |-> <<>>, parsed |-> NoParsed]
        ELSE IF end_panics
        THEN [panicked |-> TRUE, reads |-> SubSeq(clock, 1, nstart),
              parsed |-> NoParsed]
        ELSE [panicked |-> FALSE, reads |-> SubSeq(clock, 1, nstart + nend),
              parsed |->
                [start_time |-> format_datetime(
                                    IF self.start_time.some THEN sp.dt
                                    ELSE MinusFiveMinutes(clock[1])),
                 end_time   |-> format_datetime(
                                    IF self.end_time.some THEN ep.dt
                                    ELSE clock[nstart + 1]),
                 verbose |-> self.verbose, commands |-> self.commands]]

parse_and_check(self, clock) ==
    CHOOSE r \in {resolve(self, clock, sp, ep) :
                    sp \in {parse_datetime(self.start_time.v)},
                    ep \in {parse_datetime(self.end_time.v)}} : TRUE

\* Parser::parse of clap (Self::parse()) on what the command line holds
\* besides the declared arguments: an option that Args does not declare is a
\* usage error, written to the error stream, with exit status 2; --help and
\* --version write the help and the version to standard output and exit
\* with status 0.  [exits, out, exit].
Args_parse(a) ==
    CASE a.rest = "--bogus" ->
            [exits |-> TRUE, exit |-> 2,
             out |-> <<Line("stderr", "error: unexpected argument")>>]
      [] a.rest = "--help" ->
            [exits |-> TRUE, exit |-> 0, out |-> <<Line("stdout", "Usage: r2logs")>>]
      [] a.rest = "--version" ->
            [exits |-> TRUE, exit |-> 0, out |-> <<Line("stdout", "r2logs")>>]
      [] OTHER -> [exits |-> FALSE, exit |-> 0, out |-> <<>>]

\* clap's parse of commands.rs Args, whose start_time and end_time are
\* Option<DateTime<Utc>>: a value that does not parse is a usage error.
clap_rejects(a) ==
    \/ a.start_time.some /\ ~parse_datetime(a.start_time.v).ok
    \/ a.end_time.some /\ ~parse_datetime(a.end_time.v).ok

\* commands.rs Args::parsed on the values sp and ep that clap's value parser
\* made of accepted arguments: map_or evaluates its default eagerly, so
\* Utc::now() is read twice whatever was given.
Args_parsed(a, clock, sp, ep) ==
    LET parsed_start_time ==
            to_rfc3339_opts(IF a.start_time.some THEN sp.dt
                            ELSE MinusFiveMinutes(clock[1]))
        parsed_end_time ==
            to_rfc3339_opts(IF a.end_time.some THEN ep.dt ELSE clock[2])
    IN  [start_time |-> parsed_start_time, end_time |-> parsed_end_time,
         verbose |-> a.verbose, commands |-> a.commands]

\* commands.rs Args::parsed on accepted arguments.
parsed_args(a, clock) ==
    CHOOSE r \in {Args_parsed(a, clock, sp, ep) :
                    sp \in {parse_datetime(a.start_time.v)},
                    ep \in {parse_datetime(a.end_time.v)}} : TRUE

(***************************************************************************)
(* The endpoint.                                                           *)
(***************************************************************************)
\* main_endpoint with the None arm building the List endpoint.
main_endpoint_none_lists(a, e) ==
    "https://api.cloudflare.com/client/v4/accounts/" \o e.cf_account_id
    \o (IF a.commands = "Retrieve" THEN "/logs/retrieve?start=" ELSE "/logs/list?start=")
    \o a.start_time \o "&end=" \o a.end_time
    \o "&bucket=" \o e.bucket_name \o "&prefix=" \o "{DATE}"

\* main_endpoint with the API key passed as a query parameter.
main_endpoint_with_key(a, e) ==
    "https://api.cloudflare.com/client/v4/accounts/" \o e.cf_account_id
    \o (IF a.commands = "List" THEN "/logs/list?start=" ELSE "/logs/retrieve?start=")
    \o a.start_time \o "&end=" \o a.end_time
    \o "&bucket=" \o e.bucket_name \o "&prefix=" \o "{DATE}"
    \o "&key=" \o e.cf_api_key

\* main.rs main, the match on args.commands.
main_endpoint(a, e) ==
    CASE a.commands = "Retrieve" ->
            "https://api.cloudflare.com/client/v4/accounts/" \o e.cf_account_id
            \o "/logs/retrieve?start=" \o a.start_time \o "&end=" \o a.end_time
            \o "&bucket=" \o e.bucket_name \o "&prefix=" \o "{DATE}"
      [] a.commands = "List" ->
            "https://api.cloudflare.com/client/v4/accounts/" \o e.cf_account_id
            \o "/logs/list?start=" \o a.start_time \o "&end=" \o a.end_time
            \o "&bucket=" \o e.bucket_name \o "&prefix=" \o "{DATE}"
      [] a.commands = "None" ->
            "https://api.cloudflare.com/client/v4/accounts/" \o e.cf_account_id
            \o "/logs/retrieve?start=" \o a.start_time \o "&end=" \o a.end_time
            \o "&bucket=" \o e.bucket_name \o "&prefix=" \o "{DATE}"

\* build_endpoint with start and end exchanged in the query string.
build_endpoint_swapped(self, a, e) ==
    LET base_url == "https://api.cloudflare.com/client/v4/accounts/"
                    \o e.cf_account_id \o "/logs"
        params == "start=" \o a.end_time \o "&end=" \o a.start_time
                  \o "&bucket=" \o e.bucket_name \o "&prefix=" \o "{DATE}"
    IN  CASE self = "Retrieve" -> base_url \o "/retrieve?" \o params
          [] self = "List"     -> base_url \o "/list?" \o params

\* commands.rs Commands::build_endpoint.
build_endpoint(self, a, e) ==
    LET base_url == "https://api.cloudflare.com/client/v4/accounts/"
                    \o e.cf_account_id \o "/logs"
        params == "start=" \o a.start_time \o "&end=" \o a.end_time
                  \o "&bucket=" \o e.bucket_name \o "&prefix=" \o "{DATE}"
    IN  CASE self = "Retrieve" -> base_url \o "/retrieve?" \o params
          [] self = "List"     -> base_url \o "/list?" \o params

\* The lines get_endpoint and main write when verbose.
EndpointEcho(a, ep) ==
    IF a.verbose
    THEN <<Line("stdout", ""),
           Line("stdout", "Accessing endpoint: " \o Green(ep)),
           Line("stdout", "")>>
    ELSE <<>>

\* get_endpoint marking the endpoint of a verbose run.
get_endpoint_verbose_marks(self, a, e) ==
    LET ep == build_endpoint(self, a, e) \o (IF a.verbose THEN "&verbose=true" ELSE "")
    IN  [endpoint |-> ep, out |-> EndpointEcho(a, ep)]

\* commands.rs Commands::get_endpoint: the endpoint and the lines written.
get_endpoint(self, a, e) ==
    LET ep == build_endpoint(self, a, e)
    IN  [endpoint |-> ep, out |-> EndpointEcho(a, ep)]

\* The subcommand that becomes get_endpoint's self: Retrieve when none was
\* given (commands.rs, the documentation of Commands).
selected_command(a) == IF a.commands = "None" THEN "Retrieve" ELSE a.commands

(***************************************************************************)
(* The network and the fetcher.                                            *)
(***************************************************************************)
\* Response bodies: empty, "a", "a\na", the UTF-8 of U+00E9, of the euro sign
\* U+20AC and of U+1F600, the malformed sequences of a lone lead byte and of
\* a lone continuation byte, "a" after the UTF-8 byte order mark, and, after
\* the UTF-16LE byte order mark, "a" and a high surrogate that one byte
\* follows.
Bodies ==
    {<<>>, <<97>>, <<97, 10, 97>>, <<195, 169>>, <<226, 130, 172>>,
     <<240, 159, 152, 128>>, <<195>>, <<169, 97>>, <<239, 187, 191, 97>>,
     <<255, 254, 97, 0, 0, 216, 65>>}

Statuses == {200, 299, 300, 404}

\* The charset parameter of the Content-Type of a response, its characters:
\* none (no Content-Type, or one without the parameter), a label of UTF-8,
\* or a label of windows-1252.
Charsets == {<<>>, <<"u", "t", "f", "-", "8">>, <<"i", "s", "o", "-", "8", "8", "5", "9", "-", "1">>}

\* Bodies of a response that names windows-1252: "a", the two bytes that are
\* U+00E9 in UTF-8, the bytes 80 and E9, and "a" after the UTF-8 byte order
\* mark.
Latin1Bodies == {<<97>>, <<195, 169>>, <<128, 233>>, <<239, 187, 191, 97>>}

NoResponse ==
    [kind |-> "none", status |-> 0, charset |-> <<>>, readable |-> FALSE,
     body |-> <<>>]
TransportError ==
    [kind |-> "transport_error", status |-> 0, charset |-> <<>>, readable |-> FALSE,
     body |-> <<>>]

\* The charsets that come with a status: each of them with 200 and 404,
\* none with the two statuses at the bound of success.
CharsetsWith(st) == IF st \in {200, 404} THEN Charsets ELSE {<<>>}

\* The bodies that come with a status and a charset: all of them with 200
\* and 404 and no charset, the empty one and "a" with the two statuses at the
\* bound of success and with the label of UTF-8.
BodiesWith(st, cs) ==
    IF cs = <<"i", "s", "o", "-", "8", "8", "5", "9", "-", "1">> THEN Latin1Bodies
    ELSE IF st \in {200, 404} /\ cs = <<>> THEN Bodies
    ELSE {<<>>, <<97>>}

\* What send().await may yield: no response, or the status line and the
\* headers of one, its body not read yet.
StatusLine(st, cs) ==
    [kind |-> "http", status |-> st, charset |-> cs, readable |-> FALSE,
     body |-> <<>>]
Answers ==
    {TransportError}
    \cup UNION {{StatusLine(st, cs) : cs \in CharsetsWith(st)} : st \in Statuses}

\* What the network may answer: no response, or a status with a body that
\* arrives or cannot be read.
Responses ==
    {TransportError}
    \cup UNION {{[h EXCEPT !.readable = TRUE, !.body = b] :
                   b \in BodiesWith(h.status, h.charset)} :
                h \in Answers \ {TransportError}}
    \cup (Answers \ {TransportError})

\* What text().await may yield for the response whose status line is h.
BodiesOf(h) ==
    {resp \in Responses :
        resp.kind = "http" /\ resp.status = h.status /\ resp.charset = h.charset}

\* StatusCode::is_success.
is_success(status) == 200 <= status /\ status <= 299

(***************************************************************************)
(* Response::text, which is text_with_charset("utf-8"): the encoding is    *)
(* the one that the charset parameter of the Content-Type labels, UTF-8    *)
(* when there is none or when it is no label; the body is decoded by       *)
(* Encoding::decode of encoding_rs.  A byte order mark at the start        *)
(* selects the encoding (UTF-8, UTF-16LE, UTF-16BE) before the label does, *)
(* and is removed; a malformed sequence is replaced by U+FFFD, one for     *)
(* each maximal part of a sequence that could have gone on.                *)
(***************************************************************************)
IsContinuation(b) == 128 <= b /\ b <= 191

\* The number of continuation bytes the lead byte b1 asks for, 0 for a byte
\* that cannot lead.
Utf8Need(b1) ==
    IF 194 <= b1 /\ b1 <= 223 THEN 1
    ELSE IF 224 <= b1 /\ b1 <= 239 THEN 2
    ELSE IF 240 <= b1 /\ b1 <= 244 THEN 3
    ELSE 0

\* The bounds of the first continuation byte after b1: no overlong form, no
\* surrogate, nothing above U+10FFFF.
Utf8Lower(b1) == IF b1 = 224 THEN 160 ELSE IF b1 = 240 THEN 144 ELSE 128
Utf8Upper(b1) == IF b1 = 237 THEN 159 ELSE IF b1 = 244 THEN 143 ELSE 191

RECURSIVE ContinuationRun(_, _, _, _, _)
\* The number of bytes of b from position i on, at most n, that go on with
\* the sequence: the first within lo..hi, the others continuation bytes.
ContinuationRun(b, i, n, lo, hi) ==
    IF n = 0 \/ i > Len(b) \/ b[i] < lo \/ b[i] > hi THEN 0
    ELSE 1 + ContinuationRun(b, i + 1, n - 1, 128, 191)

RECURSIVE Utf8Value(_, _, _)
\* The code point of the lead byte at position i and the n continuation bytes
\* after it.
Utf8Value(b, i, n) ==
    IF n = 0 THEN (IF b[i] >= 240 THEN b[i] - 240
                   ELSE IF b[i] >= 224 THEN b[i] - 224 ELSE b[i] - 192)
    ELSE Utf8Value(b, i, n - 1) * 64 + (b[i + n] - 128)

RECURSIVE utf8_decode(_, _)
\* The UTF-8 decoder without byte order mark handling, from position i on.
utf8_decode(b, i) ==
    IF i > Len(b) THEN <<>>
    ELSE IF b[i] < 128 THEN <<b[i]>> \o utf8_decode(b, i + 1)
    ELSE IF Utf8Need(b[i]) = 0 THEN <<65533>> \o utf8_decode(b, i + 1)
    ELSE IF ContinuationRun(b, i + 1, Utf8Need(b[i]), Utf8Lower(b[i]),
                            Utf8Upper(b[i])) = Utf8Need(b[i])
    THEN <<Utf8Value(b, i, Utf8Need(b[i]))>>
         \o utf8_decode(b, i + 1 + Utf8Need(b[i]))
    ELSE <<65533>>
         \o utf8_decode(b, i + 1 + ContinuationRun(b, i + 1, Utf8Need(b[i]),
                                                   Utf8Lower(b[i]), Utf8Upper(b[i])))

\* The 16-bit unit of the two bytes of b at position i.
Utf16Unit(b, i, le) == IF le THEN b[i] + 256 * b[i + 1] ELSE 256 * b[i] + b[i + 1]

IsHighSurrogate(u) == 55296 <= u /\ u <= 56319
IsLowSurrogate(u) == 56320 <= u /\ u <= 57343

RECURSIVE utf16_decode(_, _, _)
\* The UTF-16 decoder, little endian or big endian, from position i on.
utf16_decode(b, i, le) ==
    IF i > Len(b) THEN <<>>
    ELSE IF i = Len(b) THEN <<65533>>
    ELSE IF IsHighSurrogate(Utf16Unit(b, i, le))
    THEN IF i + 3 <= Len(b) /\ IsLowSurrogate(Utf16Unit(b, i + 2, le))
         THEN <<65536 + (Utf16Unit(b, i, le) - 55296) * 1024
                + (Utf16Unit(b, i + 2, le) - 56320)>>
              \o utf16_decode(b, i + 4, le)
         ELSE IF i + 2 = Len(b) THEN <<65533>>
         ELSE <<65533>> \o utf16_decode(b, i + 2, le)
    ELSE IF IsLowSurrogate(Utf16Unit(b, i, le))
    THEN <<65533>> \o utf16_decode(b, i + 2, le)
    ELSE <<Utf16Unit(b, i, le)>> \o utf16_decode(b, i + 2, le)

\* The code points of the bytes 80 to 9F in windows-1252.
Windows1252High ==
    <<8364, 129, 8218, 402, 8222, 8230, 8224, 8225,
      710, 8240, 352, 8249, 338, 141, 381, 143,
      144, 8216, 8217, 8220, 8221, 8226, 8211, 8212,
      732, 8482, 353, 8250, 339, 157, 382, 376>>

\* The windows-1252 decoder: a byte is a character.
windows_1252_decode(b) ==
    [k \in 1..Len(b) |->
        IF 128 <= b[k] /\ b[k] <= 159 THEN Windows1252High[b[k] - 127] ELSE b[k]]

\* The white space that Encoding::for_label skips around a label.
LabelSpace == {"\t", "\n", "\f", "\r", " "}

\* The capital letters and the small ones.
UpperCase ==
    <<"A", "B", "C", "D", "E", "F", "G", "H", "I", "J", "K", "L", "M",
      "N", "O", "P", "Q", "R", "S", "T", "U", "V", "W", "X", "Y", "Z">>
LowerCase ==
    <<"a", "b", "c", "d", "e", "f", "g", "h", "i", "j", "k", "l", "m",
      "n", "o", "p", "q", "r", "s", "t", "u", "v", "w", "x", "y", "z">>

\* u8::to_ascii_lowercase on a character.
to_ascii_lowercase(c) ==
    IF \E k \in 1..26 : UpperCase[k] = c
    THEN LowerCase[CHOOSE k \in 1..26 : UpperCase[k] = c]
    ELSE c

RECURSIVE TrimLabel(_)
\* The characters cs without the white space before and after them.
TrimLabel(cs) ==
    IF cs = <<>> THEN cs
    ELSE IF Head(cs) \in LabelSpace THEN TrimLabel(Tail(cs))
    ELSE IF cs[Len(cs)] \in LabelSpace THEN TrimLabel(SubSeq(cs, 1, Len(cs) - 1))
    ELSE cs

\* The encoding that the label l of the Encoding Standard names, "none" for
\* a text that is no label.
EncodingOfLabel(l) ==
    CASE l \in {"unicode-1-1-utf-8", "unicode11utf8", "unicode20utf8", "utf-8",
             "utf8", "x-unicode20utf8"} ->
            "UTF-8"
      [] l \in {"866", "cp866", "csibm866", "ibm866"} ->
            "IBM866"
      [] l \in {"csisolatin2", "iso-8859-2", "iso-ir-101", "iso8859-2",
             "iso88592", "iso_8859-2", "iso_8859-2:1987", "l2", "latin2"} ->
            "ISO-8859-2"
      [] l \in {"csisolatin3", "iso-8859-3", "iso-ir-109", "iso8859-3",
             "iso88593", "iso_8859-3", "iso_8859-3:1988", "l3", "latin3"} ->
            "ISO-8859-3"
      [] l \in {"csisolatin4", "iso-8859-4", "iso-ir-110", "iso8859-4",
             "iso88594", "iso_8859-4", "iso_8859-4:1988", "l4", "latin4"} ->
            "ISO-8859-4"
      [] l \in {"csisolatincyrillic", "cyrillic", "iso-8859-5", "iso-ir-144",
             "iso8859-5", "iso88595", "iso_8859-5", "iso_8859-5:1988"} ->
            "ISO-8859-5"
      [] l \in {"arabic", "asmo-708", "csiso88596e", "csiso88596i",
             "csisolatinarabic", "ecma-114", "iso-8859-6", "iso-8859-6-e",
             "iso-8859-6-i", "iso-ir-127", "iso8859-6", "iso88596",
             "iso_8859-6", "iso_8859-6:1987"} ->
            "ISO-8859-6"
      [] l \in {"csisolatingreek", "ecma-118", "elot_928", "greek", "greek8",
             "iso-8859-7", "iso-ir-126", "iso8859-7", "iso88597",
             "iso_8859-7", "iso_8859-7:1987", "sun_eu_greek"} ->
            "ISO-8859-7"
      [] l \in {"csiso88598e", "csisolatinhebrew", "hebrew", "iso-8859-8",
             "iso-8859-8-e", "iso-ir-138", "iso8859-8", "iso88598",
             "iso_8859-8", "iso_8859-8:1988", "visual"} ->
            "ISO-8859-8"
      [] l \in {"csiso88598i", "iso-8859-8-i", "logical"} ->
            "ISO-8859-8-I"
      [] l \in {"csisolatin6", "iso-8859-10", "iso-ir-157", "iso8859-10",
             "iso885910", "l6", "latin6"} ->
            "ISO-8859-10"
      [] l \in {"iso-8859-13", "iso8859-13", "iso885913"} ->
            "ISO-8859-13"
      [] l \in {"iso-8859-14", "iso8859-14", "iso885914"} ->
            "ISO-8859-14"
      [] l \in {"csisolatin9", "iso-8859-15", "iso8859-15", "iso885915",
             "iso_8859-15", "l9"} ->
            "ISO-8859-15"
      [] l \in {"iso-8859-16"} ->
            "ISO-8859-16"
      [] l \in {"cskoi8r", "koi", "koi8", "koi8-r", "koi8_r"} ->
            "KOI8-R"
      [] l \in {"koi8-ru", "koi8-u"} ->
            "KOI8-U"
      [] l \in {"csmacintosh", "mac", "macintosh", "x-mac-roman"} ->
            "macintosh"
      [] l \in {"dos-874", "iso-8859-11", "iso8859-11", "iso885911", "tis-620",
             "windows-874"} ->
            "windows-874"
      [] l \in {"cp1250", "windows-1250", "x-cp1250"} ->
            "windows-1250"
      [] l \in {"cp1251", "windows-1251", "x-cp1251"} ->
            "windows-1251"
      [] l \in {"ansi_x3.4-1968", "ascii", "cp1252", "cp819", "csisolatin1",
             "ibm819", "iso-8859-1", "iso-ir-100", "iso8859-1", "iso88591",
             "iso_8859-1", "iso_8859-1:1987", "l1", "latin1", "us-ascii",
             "windows-1252", "x-cp1252"} ->
            "windows-1252"
      [] l \in {"cp1253", "windows-1253", "x-cp1253"} ->
            "windows-1253"
      [] l \in {"cp1254", "csisolatin5", "iso-8859-9", "iso-ir-148",
             "iso8859-9", "iso88599", "iso_8859-9", "iso_8859-9:1989", "l5",
             "latin5", "windows-1254", "x-cp1254"} ->
            "windows-1254"
      [] l \in {"cp1255", "windows-1255", "x-cp1255"} ->
            "windows-1255"
      [] l \in {"cp1256", "windows-1256", "x-cp1256"} ->
            "windows-1256"
      [] l \in {"cp1257", "windows-1257", "x-cp1257"} ->
            "windows-1257"
      [] l \in {"cp1258", "windows-1258", "x-cp1258"} ->
            "windows-1258"
      [] l \in {"x-mac-cyrillic", "x-mac-ukrainian"} ->
            "x-mac-cyrillic"
      [] l \in {"chinese", "csgb2312", "csiso58gb231280", "gb2312", "gb_2312",
             "gb_2312-80", "gbk", "iso-ir-58", "x-gbk"} ->
            "GBK"
      [] l \in {"gb18030"} ->
            "gb18030"
      [] l \in {"big5", "big5-hkscs", "cn-big5", "csbig5", "x-x-big5"} ->
            "Big5"
      [] l \in {"cseucpkdfmtjapanese", "euc-jp", "x-euc-jp"} ->
            "EUC-JP"
      [] l \in {"csiso2022jp", "iso-2022-jp"} ->
            "ISO-2022-JP"
      [] l \in {"csshiftjis", "ms932", "ms_kanji", "shift-jis", "shift_jis",
             "sjis", "windows-31j", "x-sjis"} ->
            "Shift_JIS"
      [] l \in {"cseuckr", "csksc56011987", "euc-kr", "iso-ir-149", "korean",
             "ks_c_5601-1987", "ks_c_5601-1989", "ksc5601", "ksc_5601",
             "windows-949"} ->
            "EUC-KR"
      [] l \in {"csiso2022kr", "hz-gb-2312", "iso-2022-cn", "iso-2022-cn-ext",
             "iso-2022-kr", "replacement"} ->
            "replacement"
      [] l \in {"unicodefffe", "utf-16be"} ->
            "UTF-16BE"
      [] l \in {"csunicode", "iso-10646-ucs-2", "ucs-2", "unicode",
             "unicodefeff", "utf-16", "utf-16le"} ->
            "UTF-16LE"
      [] l \in {"x-user-defined"} ->
            "x-user-defined"
      [] OTHER -> "none"

\* Encoding::for_label on the characters cs: the white space around them is
\* skipped and the letters are compared without their case.
for_label(cs) ==
    EncodingOfLabel(Str([k \in 1..Len(TrimLabel(cs)) |->
                            to_ascii_lowercase(TrimLabel(cs)[k])]))

\* The encoding text_with_charset("utf-8") decodes with, for the charset
\* parameter cs (empty when the Content-Type has none):
\* Encoding::for_label(..).unwrap_or(UTF_8).
EncodingOf(cs) ==
    IF cs = <<>> THEN "UTF-8"
    ELSE CHOOSE e \in {IF l = "none" THEN "UTF-8" ELSE l : l \in {for_label(cs)}} :
             TRUE

\* The decoder of x-user-defined: a byte from 80 on is a character from
\* U+F780 on.
user_defined_decode(b) ==
    [k \in 1..Len(b) |-> IF b[k] >= 128 THEN 63360 + (b[k] - 128) ELSE b[k]]

\* Encoding::decode_without_bom_handling of the encoding enc, for UTF-8,
\* windows-1252, UTF-16, replacement (one U+FFFD for a body that is not
\* empty) and x-user-defined.  The decoders of the legacy single-byte and
\* multi-byte encodings are not part of this model: on their names the
\* operator has no value.
decode_without_bom_handling(enc, b) ==
    CASE enc = "UTF-8" -> utf8_decode(b, 1)
      [] enc = "windows-1252" -> windows_1252_decode(b)
      [] enc = "UTF-16LE" -> utf16_decode(b, 1, TRUE)
      [] enc = "UTF-16BE" -> utf16_decode(b, 1, FALSE)
      [] enc = "replacement" -> IF b = <<>> THEN <<>> ELSE <<65533>>
      [] enc = "x-user-defined" -> user_defined_decode(b)

\* Response::text on the bytes b of the body of a response whose
\* Content-Type has the charset parameter cs: Encoding::decode, in which a
\* byte order mark decides before the label does.
Decode(b, cs) ==
    IF Len(b) >= 3 /\ b[1] = 239 /\ b[2] = 187 /\ b[3] = 191
    THEN utf8_decode(b, 4)
    ELSE IF Len(b) >= 2 /\ b[1] = 255 /\ b[2] = 254 THEN utf16_decode(b, 3, TRUE)
    ELSE IF Len(b) >= 2 /\ b[1] = 254 /\ b[2] = 255 THEN utf16_decode(b, 3, FALSE)
    ELSE CHOOSE t \in {decode_without_bom_handling(e, b) : e \in {EncodingOf(cs)}} :
             TRUE

\* "Error Undifined".to_string()
ErrorUndifined ==
    <<69, 114, 114, 111, 114, 32, 85, 110, 100, 105, 102, 105, 110, 101, 100>>

NoResult == [kind |-> "none", text |-> <<>>]
Ok(text) == [kind |-> "Ok", text |-> text]
Err == [kind |-> "Err", text |-> <<>>]

\* fetch_request with the values of the two R2 headers exchanged.
fetch_request_swapped(ep, cf_api_key, r2_access_key_id, r2_secret_access_key) ==
    [method |-> "GET", url |-> ep,
     headers |-> <<<<"Authorization", "Bearer " \o cf_api_key>>,
                   <<"R2-Access-Key-Id", r2_secret_access_key>>,
                   <<"R2-Secret-Access-Key", r2_access_key_id>>>>]

\* The request that the builder chain of fetch_logs hands to send().
fetch_request(ep, cf_api_key, r2_access_key_id, r2_secret_access_key) ==
    [method |-> "GET", url |-> ep,
     headers |-> <<<<"Authorization", "Bearer " \o cf_api_key>>,
                   <<"R2-Access-Key-Id", r2_access_key_id>>,
                   <<"R2-Secret-Access-Key", r2_secret_access_key>>>>]

\* fetch_logs made to propagate the failure to read an error body.
fetch_logs_strict(resp) ==
    IF resp.kind = "transport_error" \/ ~resp.readable
    THEN [result |-> Err, out |-> <<>>]
    ELSE IF ~is_success(resp.status)
    THEN [result |-> Ok(<<>>),
          out |-> <<Line("stderr", "Failed to retrieve logs: "
                                   \o Decimal(resp.status)),
                    LineText("stderr", "Error Detail: ", Decode(resp.body, resp.charset))>>]
    ELSE [result |-> Ok(Decode(resp.body, resp.charset)), out |-> <<>>]

\* fetch_logs made to keep the ASCII characters of the body only.
fetch_logs_ascii_only(resp) ==
    IF resp.kind = "transport_error" THEN [result |-> Err, out |-> <<>>]
    ELSE IF ~is_success(resp.status) THEN [result |-> Ok(<<>>), out |-> <<>>]
    ELSE IF ~resp.readable THEN [result |-> Err, out |-> <<>>]
    ELSE [result |-> Ok(SelectSeq(Decode(resp.body, resp.charset), LAMBDA c : c < 128)),
          out |-> <<>>]

\* fetch_logs made to fail on a non-success status, as error_for_status does.
fetch_logs_error_for_status(resp) ==
    IF resp.kind = "transport_error" THEN [result |-> Err, out |-> <<>>]
    ELSE IF ~is_success(resp.status) THEN [result |-> Err, out |-> <<>>]
    ELSE IF ~resp.readable THEN [result |-> Err, out |-> <<>>]
    ELSE [result |-> Ok(Decode(resp.body, resp.charset)), out |-> <<>>]

\* api.rs fetch_logs after send(): the Result and the lines written.
fetch_logs(resp) ==
    IF resp.kind = "transport_error" THEN [result |-> Err, out |-> <<>>]
    ELSE IF ~is_success(resp.status)
    THEN LET error_detail == IF resp.readable THEN Decode(resp.body, resp.charset)
                             ELSE ErrorUndifined
         IN  [result |-> Ok(<<>>),
              out |-> <<Line("stderr", "Failed to retrieve logs: "
                                       \o Decimal(resp.status)),
                        LineText("stderr", "Error Detail: ", error_detail)>>]
    ELSE IF ~resp.readable THEN [result |-> Err, out |-> <<>>]
    ELSE LET text == Decode(resp.body, resp.charset)
         IN  IF text = <<>>
             THEN [result |-> Ok(<<>>),
                   out |-> <<Line("stderr", "No logs found"),
                             Line("stderr", "Please check time range")>>]
             ELSE [result |-> Ok(text), out |-> <<>>]

\* The request that the builder chain of main hands to send().
main_request(ep, e) ==
    [method |-> "GET", url |-> ep,
     headers |-> <<<<"Authorization", "Bearer " \o e.cf_api_key>>,
                   <<"R2-Access-Key-Id", e.r2_access_key_id>>,
                   <<"R2-Secret-Access-Key", e.r2_secret_access_key>>>>]

\* main_response without the test for an empty text: whatever was read is
\* printed.
main_response_prints_empty(resp) ==
    IF resp.kind = "transport_error" \/ ~resp.readable
    THEN [result |-> Err, out |-> <<Line("stderr", "Error: reqwest::Error")>>,
          exit |-> 1]
    ELSE [result |-> Ok(<<>>),
          out |-> <<LineText("stdout", "", Decode(resp.body, resp.charset))>>, exit |-> 0]

\* main.rs main after send(): the Result, the lines written and the exit code
\* (a returned Err is reported by the runtime and exits with 1).
main_response(resp) ==
    IF resp.kind = "transport_error"
    THEN [result |-> Err, out |-> <<Line("stderr", "Error: reqwest::Error")>>,
          exit |-> 1]
    ELSE IF ~is_success(resp.status)
    THEN [result |-> Ok(<<>>),
          out |-> <<Line("stderr", "Failed to retrieve logs: "
                                   \o Decimal(resp.status))>>,
          exit |-> 0]
    ELSE IF ~resp.readable
    THEN [result |-> Err, out |-> <<Line("stderr", "Error: reqwest::Error")>>,
          exit |-> 1]
    ELSE LET text == Decode(resp.body, resp.charset)
         IN  IF text = <<>>
             THEN [result |-> Ok(<<>>),
                   out |-> <<Line("stderr", "No logs found"),
                             Line("stderr", "Please check time range")>>,
                   exit |-> 0]
             ELSE [result |-> Ok(<<>>), out |-> <<LineText("stdout", "", text)>>,
                   exit |-> 0]

(***************************************************************************)
(* The state machine.                                                      *)
(***************************************************************************)
Init ==
    /\ variant \in {"main", "lib"}
    /\ pc = "start"
    /\ environ \in Environs
    /\ variant = "main" => environ["CLOUDFLARE_API_KEY"] = Unset
    /\ variant = "lib" => environ["CF_API_KEY"] # SetTo("key-2")
    /\ env = EmptyEnv
    /\ api_env = EmptyApiEnv
    /\ args = NoArgs
    /\ reads = <<>>
    /\ parsed = NoParsed
    /\ endpoint = ""
    /\ requests = <<>>
    /\ response = NoResponse
    /\ result = NoResult
    /\ out = <<>>
    /\ exit = -1

\* main_env without the return of line 175: the run goes on after the hint.
main_env_goes_on ==
    /\ variant = "main" /\ pc = "start"
    /\ LET r == main_Env_new(environ)
       IN  /\ env' = r.env
           /\ out' = IF r.ok THEN out ELSE out \o EnvFailureLines(r.err)
    /\ pc' = "args"
    /\ UNCHANGED <<variant, environ, api_env, args, reads, parsed, endpoint,
                   requests, response, result, exit>>

\* main.rs main, lines 169-177: load the environment or give up.
main_env ==
    /\ variant = "main" /\ pc = "start"
    /\ LET r == main_Env_new(environ)
       IN  IF r.ok
           THEN /\ env' = r.env
                /\ pc' = "args"
                /\ UNCHANGED <<out, result, exit>>
           ELSE /\ out' = out \o EnvFailureLines(r.err)
                /\ result' = Ok(<<>>)
                /\ exit' = 0
                /\ pc' = "done"
                /\ UNCHANGED env
    /\ UNCHANGED <<variant, environ, api_env, args, reads, parsed, endpoint,
                   requests, response>>

\* main.rs main, lines 178-186: Args::get_parsed and the verbose time range.
main_args ==
    /\ variant = "main" /\ pc = "args"
    /\ \E a \in ArgsSet, n \in NowSet, tick \in 0..MaxTick :
         /\ args' = a
         /\ IF Args_parse(a).exits
            THEN /\ out' = out \o Args_parse(a).out
                 /\ exit' = Args_parse(a).exit
                 /\ pc' = "done"
                 /\ UNCHANGED <<reads, parsed>>
            ELSE \E r \in {parse_and_check(a, <<n, Advance(n, tick)>>)} :
                 /\ reads' = r.reads
                 /\ IF r.panicked
                    THEN /\ out' = Append(out, Line("stderr",
                                "thread main panicked: called Result::unwrap() on an Err value"))
                         /\ exit' = 101
                         /\ pc' = "done"
                         /\ UNCHANGED parsed
                    ELSE /\ parsed' = r.parsed
                         /\ out' = out \o
                              (IF r.parsed.verbose
                               THEN <<Line("stdout", ""),
                                      Line("stdout", "Retrieving logs from "
                                           \o Green(DebugStr(r.parsed.start_time))
                                           \o " to "
                                           \o Green(DebugStr(r.parsed.end_time)) \o " ")>>
                               ELSE <<>>)
                         /\ pc' = "endpoint"
                         /\ UNCHANGED exit
    /\ UNCHANGED <<variant, environ, env, api_env, endpoint, requests, response,
                   result>>

\* main.rs main, lines 188-212: the endpoint and its verbose echo.
main_build ==
    /\ variant = "main" /\ pc = "endpoint"
    /\ endpoint' = main_endpoint(parsed, env)
    /\ out' = out \o EndpointEcho(parsed, endpoint')
    /\ pc' = "request"
    /\ UNCHANGED <<variant, environ, env, api_env, args, reads, parsed, requests,
                   response, result, exit>>

\* main.rs main, lines 214-221: the request is built and handed to send().
main_send ==
    /\ variant = "main" /\ pc = "request"
    /\ requests' = Append(requests, main_request(endpoint, env))
    /\ pc' = "send"
    /\ UNCHANGED <<variant, environ, env, api_env, args, reads, parsed, endpoint,
                   response, result, out, exit>>

\* main_status sending the request again, once, when the transport failed.
main_status_retries ==
    /\ variant = "main" /\ pc = "send"
    /\ \E h \in Answers :
         /\ response' = h
         /\ IF h.kind = "transport_error" /\ Len(requests) < 2
            THEN /\ pc' = "request"
                 /\ UNCHANGED <<result, out, exit>>
            ELSE IF h.kind = "transport_error" \/ ~is_success(h.status)
            THEN \E r \in {main_response(h)} :
                     /\ result' = r.result
                     /\ out' = out \o r.out
                     /\ exit' = r.exit
                     /\ pc' = "done"
            ELSE /\ pc' = "text"
                 /\ UNCHANGED <<result, out, exit>>
    /\ UNCHANGED <<variant, environ, env, api_env, args, reads, parsed, endpoint,
                   requests>>

\* main.rs main, lines 221-226: send().await returns; a transport error is
\* returned by ?, a status that is no success is reported.
main_status ==
    /\ variant = "main" /\ pc = "send"
    /\ \E h \in Answers :
         /\ response' = h
         /\ IF h.kind = "transport_error" \/ ~is_success(h.status)
            THEN \E r \in {main_response(h)} :
                     /\ result' = r.result
                     /\ out' = out \o r.out
                     /\ exit' = r.exit
                     /\ pc' = "done"
            ELSE /\ pc' = "text"
                 /\ UNCHANGED <<result, out, exit>>
    /\ UNCHANGED <<variant, environ, env, api_env, args, reads, parsed, endpoint,
                   requests>>

\* main.rs main, lines 228-237: text().await returns and the text is written.
main_text ==
    /\ variant = "main" /\ pc = "text"
    /\ \E resp \in BodiesOf(response) :
         \E r \in {main_response(resp)} :
             /\ response' = resp
             /\ result' = r.result
             /\ out' = out \o r.out
             /\ exit' = r.exit
    /\ pc' = "done"
    /\ UNCHANGED <<variant, environ, env, api_env, args, reads, parsed, endpoint,
                   requests>>

\* The functions of config.rs, commands.rs and api.rs are run in the order of
\* their data flow: Env::get_env, ApiEnv::new, Args::get_parsed,
\* Commands::get_endpoint on the account and the bucket of Env, fetch_logs on
\* the endpoint and the three credentials of ApiEnv.  An async function gives
\* way at each await: the request is sent in one step, the answer to send()
\* is taken in a second, that of text() in a third.

\* config.rs Env::get_env: load the environment or exit(1).
get_env ==
    /\ variant = "lib" /\ pc = "start"
    /\ LET r == Env_new(environ)
       IN  IF r.ok
           THEN /\ env' = r.env
                /\ pc' = "api_env"
                /\ UNCHANGED <<out, exit>>
           ELSE /\ out' = out \o EnvFailureLines(r.err)
                /\ exit' = 1
                /\ pc' = "done"
                /\ UNCHANGED env
    /\ UNCHANGED <<variant, environ, api_env, args, reads, parsed, endpoint,
                   requests, response, result>>

\* What the caller of ApiEnv::new does with its Result: on Err the message
\* and the hint are written and the process ends with a failure.
api_env_caller(r) ==
    IF r.ok THEN [pc |-> "args", out |-> <<>>, exit |-> -1]
    ELSE [pc |-> "done", out |-> ApiEnvFailureLines(r.err), exit |-> 1]

\* api.rs ApiEnv::new, called once Env::get_env has returned.
api_env_new ==
    /\ variant = "lib" /\ pc = "api_env"
    /\ \E r \in {ApiEnv_new(environ)} :
         \E c \in {api_env_caller(r)} :
             /\ api_env' = r.env
             /\ out' = out \o c.out
             /\ exit' = c.exit
             /\ pc' = c.pc
    /\ UNCHANGED <<variant, environ, env, args, reads, parsed, endpoint, requests,
                   response, result>>

\* commands.rs Args::get_parsed: clap's parse, Args::parsed and the verbose
\* time range.
get_parsed ==
    /\ variant = "lib" /\ pc = "args"
    /\ \E a \in ArgsSet, n \in NowSet, tick \in 0..MaxTick :
         /\ args' = a
         /\ IF Args_parse(a).exits
            THEN /\ out' = out \o Args_parse(a).out
                 /\ exit' = Args_parse(a).exit
                 /\ pc' = "done"
                 /\ UNCHANGED <<reads, parsed>>
            ELSE IF clap_rejects(a)
            THEN /\ out' = Append(out, Line("stderr", "error: invalid value"))
                 /\ exit' = 2
                 /\ pc' = "done"
                 /\ UNCHANGED <<reads, parsed>>
            ELSE \E parsed_args_ \in {parsed_args(a, <<n, Advance(n, tick)>>)} :
                     /\ reads' = <<n, Advance(n, tick)>>
                     /\ parsed' = parsed_args_
                     /\ out' = out \o
                          (IF parsed_args_.verbose
                           THEN <<Line("stdout", ""),
                                  Line("stdout", "Retrieve logs from "
                                       \o Green(DebugStr(parsed_args_.start_time))
                                       \o " to "
                                       \o Green(DebugStr(parsed_args_.end_time)) \o " ")>>
                           ELSE <<>>)
                     /\ pc' = "endpoint"
                     /\ UNCHANGED exit
    /\ UNCHANGED <<variant, environ, env, api_env, endpoint, requests, response,
                   result>>

\* commands.rs Commands::get_endpoint on the selected subcommand.
call_get_endpoint ==
    /\ variant = "lib" /\ pc = "endpoint"
    /\ LET r == get_endpoint(selected_command(parsed), parsed, env)
       IN  /\ endpoint' = r.endpoint
           /\ out' = out \o r.out
    /\ pc' = "request"
    /\ UNCHANGED <<variant, environ, env, api_env, args, reads, parsed, requests,
                   response, result, exit>>

\* api.rs fetch_logs, lines 40-46, on the endpoint and the credentials of
\* ApiEnv: the request is built and handed to send().
fetch_send ==
    /\ variant = "lib" /\ pc = "request"
    /\ requests' = Append(requests,
           fetch_request(endpoint, api_env.cf_api_key, api_env.r2_access_key_id,
                         api_env.r2_secret_access_key))
    /\ pc' = "send"
    /\ UNCHANGED <<variant, environ, env, api_env, args, reads, parsed, endpoint,
                   response, result, out, exit>>

\* api.rs fetch_logs, lines 46-53 and 58: send().await returns; a transport
\* error is returned by ?, and with any status text() is called.
fetch_status ==
    /\ variant = "lib" /\ pc = "send"
    /\ \E h \in Answers :
         /\ response' = h
         /\ IF h.kind = "transport_error"
            THEN \E r \in {fetch_logs(h)} :
                     /\ result' = r.result
                     /\ out' = out \o r.out
                     /\ pc' = "done"
            ELSE /\ pc' = "text"
                 /\ UNCHANGED <<result, out>>
    /\ UNCHANGED <<variant, environ, env, api_env, args, reads, parsed, endpoint,
                   requests, exit>>

\* api.rs fetch_logs, lines 53-64: text().await returns; the diagnostics are
\* written and the Result is returned.
fetch_text ==
    /\ variant = "lib" /\ pc = "text"
    /\ \E resp \in BodiesOf(response) :
         \E r \in {fetch_logs(resp)} :
             /\ response' = resp
             /\ result' = r.result
             /\ out' = out \o r.out
    /\ pc' = "done"
    /\ UNCHANGED <<variant, environ, env, api_env, args, reads, parsed, endpoint,
                   requests, exit>>

Next ==
    \/ main_env
    \/ main_args
    \/ main_build
    \/ main_send
    \/ main_status
    \/ main_text
    \/ get_env
    \/ api_env_new
    \/ get_parsed
    \/ call_get_endpoint
    \/ fetch_send
    \/ fetch_status
    \/ fetch_text

Spec == Init /\ [][Next]_vars

(***************************************************************************)
(* Vocabulary of the properties.                                           *)
(***************************************************************************)
\* The loader has run.
LoaderDone == pc # "start"

\* The required variables, in the loader's order, that are absent.
UnsetVars == SelectSeq(VarNames, LAMBDA n : environ[n].state = "unset")

\* The required variables, in the loader's order, that std::env::var cannot
\* return: absent, or holding a value that is not valid Unicode.
UnreadableVars == SelectSeq(VarNames, LAMBDA n : environ[n].state # "set")

RECURSIVE NotSetMessage(_)
\* One "<NAME> is not set" per name, a newline between two of them.
NotSetMessage(m) ==
    IF Len(m) = 1 THEN m[1] \o " is not set"
    ELSE m[1] \o " is not set" \o "\n" \o NotSetMessage(Tail(m))

\* The credential structure that holds the environment's values.
EnvOfEnviron ==
    [cf_api_key           |-> environ["CF_API_KEY"].val,
     r2_access_key_id     |-> environ["R2_ACCESS_KEY_ID"].val,
     r2_secret_access_key |-> environ["R2_SECRET_ACCESS_KEY"].val,
     cf_account_id        |-> environ["CF_ACCOUNT_ID"].val,
     bucket_name          |-> environ["BUCKET_NAME"].val]

\* The caller of the loader wrote its three lines, which it does on Err only.
HintWritten ==
    /\ Len(out) >= 3 /\ out[2] = Line("stdout", "")
    /\ out[3] = Line("stderr", "Please set environment variables")

\* The loader returned Ok / returned Err(m).
LoaderOk == LoaderDone /\ env = EnvOfEnviron /\ ~HintWritten
LoaderErr(m) ==
    /\ pc = "done" /\ env = EmptyEnv /\ requests = <<>>
    /\ Len(out) >= 1 /\ out[1] = [stream |-> "stderr", fmt |-> m, text |-> <<>>]

(***************************************************************************)
(* C1.  As claimed: the loader tries all five variables in its fixed       *)
(* order and returns Ok exactly when none of them is unset; otherwise it   *)
(* returns Err whose message is the newline-joined list with exactly one   *)
(* "<NAME> is not set" for each unset variable, in the loader's order.     *)
(* This fails for a variable that is set to a value that is not valid      *)
(* Unicode: std::env::var fails on it and the loader reports it too.       *)
(***************************************************************************)
C1_AsClaimed ==
    LoaderDone =>
        IF UnsetVars = <<>> THEN LoaderOk
        ELSE LoaderErr(NotSetMessage(UnsetVars))

\* C1, amended: the loader returns Ok exactly when every variable holds a
\* valid Unicode string, and otherwise Err whose message is the
\* newline-joined list with exactly one "<NAME> is not set" for each variable
\* that is unset or not valid Unicode (and none for the others), in the
\* loader's fixed order, whichever variables come before or after.
C1_CollectsAll ==
    LoaderDone =>
        IF UnreadableVars = <<>> THEN LoaderOk
        ELSE LoaderErr(NotSetMessage(UnreadableVars))

\* The first and the last variable are unreadable, one between them is set,
\* and the loader has failed.
C1_Witness ==
    /\ pc = "done" /\ requests = <<>>
    /\ environ["CF_API_KEY"].state = "unset"
    /\ environ["CF_ACCOUNT_ID"].state = "set"
    /\ environ["BUCKET_NAME"].state = "unset"
    /\ Len(out) = 3

(***************************************************************************)
(* C2.  As claimed: whenever a required variable is unset, the run ends    *)
(* with a non-zero exit code, after the combined message and the hint      *)
(* "Please set environment variables" were printed.  main.rs returns       *)
(* Ok(()) there, so the process exits with 0.                              *)
(***************************************************************************)
C2_NonZeroExit ==
    (LoaderDone /\ UnsetVars # <<>>) =>
        /\ pc = "done"
        /\ exit \notin {-1, 0}
        /\ out = <<Line("stderr", NotSetMessage(UnreadableVars)),
                   Line("stdout", ""),
                   Line("stderr", "Please set environment variables")>>

\* The variable that holds the API key of the Authorization header: main.rs
\* sends the one its Env loaded, api.rs is given the one of ApiEnv.
KeyName == IF variant = "main" THEN "CF_API_KEY" ELSE "CLOUDFLARE_API_KEY"

\* The variables the run requires: the five of Env and the key of the header.
Required == Names \ (IF variant = "main" THEN {"CLOUDFLARE_API_KEY"} ELSE {})

(***************************************************************************)
(* C3.  In a run in which a required variable is unset no endpoint is      *)
(* built and no HTTP request is issued, in any state of the run: the run   *)
(* is loading its credentials or is over.                                  *)
(***************************************************************************)
C3_NoRequest ==
    (\E n \in Required : environ[n].state = "unset") =>
        /\ pc \in {"start", "api_env", "done"}
        /\ requests = <<>> /\ endpoint = "" /\ response = NoResponse

\* A run with an unset variable that is over.
C3_Witness == UnsetVars # <<>> /\ pc = "done" /\ requests = <<>>

(***************************************************************************)
(* Vocabulary of the fetcher's properties.                                 *)
(***************************************************************************)
\* A request was sent and what came of it was handled.
Fetched == pc = "done" /\ requests # <<>>

\* An HTTP response arrived, with a status outside / inside 200..299.
GotNon2xx == response.kind = "http" /\ (response.status < 200 \/ response.status > 299)
Got2xx == response.kind = "http" /\ response.status >= 200 /\ response.status <= 299

\* Texts of up to three characters among "a", line feed, U+00E9, the euro
\* sign, the byte order mark U+FEFF and U+1F600.
TextChars == {97, 10, 233, 8364, 65279, 128512}
Texts == {<<>>} \cup UNION {[1..n -> TextChars] : n \in 1..3}

\* The UTF-8 encoding of one code point.
Utf8Char(c) ==
    IF c < 128 THEN <<c>>
    ELSE IF c < 2048 THEN <<192 + (c \div 64), 128 + (c % 64)>>
    ELSE IF c < 65536
    THEN <<224 + (c \div 4096), 128 + ((c \div 64) % 64), 128 + (c % 64)>>
    ELSE <<240 + (c \div 262144), 128 + ((c \div 4096) % 64),
           128 + ((c \div 64) % 64), 128 + (c % 64)>>

RECURSIVE Utf8(_)
\* The UTF-8 encoding of a text.
Utf8(x) == IF x = <<>> THEN <<>> ELSE Utf8Char(x[1]) \o Utf8(Tail(x))

(***************************************************************************)
(* C4.  For a response with a non-2xx status, whatever its body and also   *)
(* when the body cannot be read, fetch_logs returns Ok("") and no error,   *)
(* which is what it returns for a 2xx response with an empty body; main    *)
(* returns Ok(()) and exits with 0.                                        *)
(***************************************************************************)
C4_Non2xxIsEmptyOk ==
    (Fetched /\ GotNon2xx) =>
        /\ result = Ok(<<>>)
        /\ variant = "lib" =>
              result = fetch_logs([kind |-> "http", status |-> 200,
                                   charset |-> <<>>, readable |-> TRUE,
                                   body |-> <<>>]).result
        /\ variant = "main" => exit = 0

\* fetch_logs has handled a 404 whose body could not be read.
C4_Witness ==
    /\ variant = "lib" /\ Fetched /\ response.status = 404 /\ ~response.readable
    /\ result = Ok(<<>>)

(***************************************************************************)
(* C5.  As claimed: for a response with a 2xx status whose body is the     *)
(* text X, fetch_logs returns Ok with exactly X, unmodified, the empty     *)
(* string when X is empty.  X ranges over texts; the body on the wire is   *)
(* its UTF-8 encoding.  A text that starts with the byte order mark U+FEFF *)
(* refutes it: Response::text removes the mark.  So does a response whose  *)
(* Content-Type names windows-1252: Response::text decodes the bytes of    *)
(* U+00E9 as the two characters U+00C3 and U+00A9.                         *)
(***************************************************************************)
C5_AsClaimed ==
    (variant = "lib" /\ Fetched /\ Got2xx /\ response.readable) =>
        \A x \in Texts : Utf8(x) = response.body => result = Ok(x)

\* X without the byte order mark it starts with, X when it starts with none.
WithoutMark(x) == IF x # <<>> /\ x[1] = 65279 THEN Tail(x) ELSE x

\* The Content-Type of the response names no character encoding other than
\* UTF-8: it has no charset parameter, or one that labels UTF-8 or nothing.
NamesNoOtherCharset == EncodingOf(response.charset) = "UTF-8"

\* C5, amended: for a response with a 2xx status whose Content-Type names no
\* character encoding other than UTF-8 and whose body is the UTF-8 encoding
\* of the text X, fetch_logs returns Ok with exactly X, unmodified and
\* unparsed, except that a byte order mark U+FEFF at the start of X is
\* removed; when X is empty the returned text is the empty string.
C5_BodyReturnedVerbatim ==
    (variant = "lib" /\ Fetched /\ Got2xx /\ response.readable
        /\ NamesNoOtherCharset) =>
        \A x \in Texts : Utf8(x) = response.body => result = Ok(WithoutMark(x))

\* fetch_logs has returned "a" for a 200 response that names no charset and
\* whose body is "a" after the byte order mark.
C5_Witness ==
    /\ variant = "lib" /\ Fetched /\ response.status = 200
    /\ response.charset = <<>>
    /\ response.body = <<239, 187, 191, 97>> /\ result = Ok(<<97>>)

(***************************************************************************)
(* C6.  As claimed: fetch_logs and main return Err if and only if the      *)
(* request could not be sent or no response was obtained; once a status    *)
(* was received the result is Ok.  A 2xx response whose body cannot be     *)
(* read refutes it: text().await? propagates the error.                    *)
(***************************************************************************)
C6_AsClaimed ==
    (pc = "done" /\ result # NoResult) =>
        (result = Err <=> response.kind = "transport_error")

\* C6, amended: fetch_logs and main return Err if and only if no response
\* was obtained or the body of a 2xx response could not be read; a response
\* with a non-2xx status, and a 2xx response whose body was read, end with Ok.
C6_ErrIffTransport ==
    (pc = "done" /\ result # NoResult) =>
        (result = Err <=>
            \/ response.kind = "transport_error"
            \/ (Got2xx /\ ~response.readable))

\* A 2xx response whose body could not be read has been handled.
C6_Witness == Fetched /\ response.status = 200 /\ ~response.readable /\ result = Err

(***************************************************************************)
(* C7.  Every request issued is a GET to the endpoint with exactly the     *)
(* three headers Authorization: "Bearer " and the API key,                 *)
(* R2-Access-Key-Id: the access key id, R2-Secret-Access-Key: the secret   *)
(* access key, the values being those of the environment.  The API key is  *)
(* the one of CF_API_KEY for main.rs and of CLOUDFLARE_API_KEY for api.rs. *)
(***************************************************************************)
C7_RequestHeaders ==
    \A i \in 1..Len(requests) :
        /\ requests[i].method = "GET"
        /\ requests[i].url = endpoint
        /\ Len(requests[i].headers) = 3
        /\ {requests[i].headers[j] : j \in 1..3} =
              {<<"Authorization", "Bearer " \o environ[KeyName].val>>,
               <<"R2-Access-Key-Id", environ["R2_ACCESS_KEY_ID"].val>>,
               <<"R2-Secret-Access-Key", environ["R2_SECRET_ACCESS_KEY"].val>>}

\* fetch_logs issued a request with the API key of ApiEnv, which is not the
\* one of Env.
C7_Witness ==
    /\ variant = "lib" /\ requests # <<>>
    /\ environ["CF_API_KEY"].val = "key-1"
    /\ environ["CLOUDFLARE_API_KEY"].val = "key-2"

(***************************************************************************)
(* Vocabulary of the endpoint's and the resolver's properties.             *)
(***************************************************************************)
\* The endpoint has been built.
EndpointBuilt ==
    pc \in {"request", "send", "text"} \/ (pc = "done" /\ requests # <<>>)

\* The resolver has returned the time range, which no later step changes.
Resolved == pc = "endpoint"

\* The URL of the claim for path segment seg, account a, bucket b and range
\* s, e.
ClaimedUrl(seg, a, s, e, b) ==
    "https://api.cloudflare.com/client/v4/accounts/" \o a \o "/logs/" \o seg
    \o "?start=" \o s \o "&end=" \o e \o "&bucket=" \o b \o "&prefix={DATE}"

(***************************************************************************)
(* C8.  For every account id A, bucket name B and resolved range S, E the  *)
(* endpoint built for Retrieve is exactly                                  *)
(* https://api.cloudflare.com/client/v4/accounts/A/logs/retrieve?start=S&end=E&bucket=B&prefix={DATE} *)
(* and the endpoint built for List is that string with /list in place of   *)
(* /retrieve.                                                              *)
(***************************************************************************)
C8_EndpointFormat ==
    EndpointBuilt =>
        /\ parsed.commands = "Retrieve" =>
              endpoint = ClaimedUrl("retrieve", environ["CF_ACCOUNT_ID"].val,
                                    parsed.start_time, parsed.end_time,
                                    environ["BUCKET_NAME"].val)
        /\ parsed.commands = "List" =>
              endpoint = ClaimedUrl("list", environ["CF_ACCOUNT_ID"].val,
                                    parsed.start_time, parsed.end_time,
                                    environ["BUCKET_NAME"].val)

\* The List endpoint was built for the second account and the second bucket
\* on an explicit range.
C8_Witness ==
    /\ EndpointBuilt /\ parsed.commands = "List"
    /\ endpoint = "https://api.cloudflare.com/client/v4/accounts/acct-2/logs/list?start=2024-01-11T15:00:00Z&end=2024-01-11T15:05:00Z&bucket=logs-2&prefix={DATE}"

(***************************************************************************)
(* C9.  Without a subcommand the run behaves as Retrieve: the endpoint     *)
(* requested is the one Some(Retrieve) gives on the same inputs, and is    *)
(* not the List endpoint.                                                  *)
(***************************************************************************)
C9_DefaultIsRetrieve ==
    (EndpointBuilt /\ parsed.commands = "None") =>
        /\ endpoint = (IF variant = "main"
                       THEN main_endpoint([parsed EXCEPT !.commands = "Retrieve"], env)
                       ELSE build_endpoint("Retrieve", parsed, env))
        /\ endpoint # (IF variant = "main"
                       THEN main_endpoint([parsed EXCEPT !.commands = "List"], env)
                       ELSE build_endpoint("List", parsed, env))
        /\ \A i \in 1..Len(requests) : requests[i].url = endpoint

\* A request went out in a run of main without a subcommand.
C9_Witness ==
    variant = "main" /\ parsed.commands = "None" /\ args.commands = "None"
    /\ Len(requests) = 1

(***************************************************************************)
(* C10.  As claimed: with start and end both absent there is one current   *)
(* time now such that start_time is the rendering of now - 5 minutes and   *)
(* end_time the rendering of now, so that end_time is exactly 300 seconds  *)
(* after start_time.  The resolver reads the clock once per absent bound,  *)
(* and the two readings may lie in different seconds.                      *)
(***************************************************************************)
BothAbsent == ~args.start_time.some /\ ~args.end_time.some

C10_AsClaimed ==
    (Resolved /\ BothAbsent) =>
        \E now \in {reads[i] : i \in 1..Len(reads)} :
            /\ parsed.start_time = format_datetime(At(now.day, now.sod - 300, now.ms))
            /\ parsed.end_time = format_datetime(now)

\* C10, amended: an absent start resolves to the seconds-precision UTC
\* rendering of (now1 - 5 minutes) and an absent end to that of now2, now1
\* and now2 being the clock readings taken for the start and for the end; a
\* bound that is given resolves to the rendering of the given instant.  With
\* both absent, end_time is exactly 300 seconds after start_time when the two
\* readings lie in the same second.
C10_DefaultWindow ==
    Resolved =>
        /\ ~args.start_time.some =>
              /\ Len(reads) >= 1
              /\ parsed.start_time =
                    format_datetime(At(reads[1].day, reads[1].sod - 300, reads[1].ms))
        /\ ~args.end_time.some =>
              /\ Len(reads) >= 1
              /\ parsed.end_time = format_datetime(reads[Len(reads)])
        /\ args.start_time.some =>
              parsed.start_time = format_datetime(parse_datetime(args.start_time.v).dt)
        /\ args.end_time.some =>
              parsed.end_time = format_datetime(parse_datetime(args.end_time.v).dt)
        /\ (BothAbsent /\ Len(reads) = 2 /\ reads[1].day = reads[2].day
            /\ reads[1].sod = reads[2].sod) =>
              parsed.start_time =
                  format_datetime(At(reads[2].day, reads[2].sod - 300, reads[2].ms))

\* Both bounds were absent and the clock passed into the next second between
\* the two readings.
C10_Witness ==
    /\ Resolved /\ BothAbsent /\ Len(reads) = 2
    /\ reads[2] = At(reads[1].day, reads[1].sod + 1, 0)
    /\ parsed.start_time = "2024-02-29T23:54:59Z"
    /\ parsed.end_time = "2024-03-01T00:00:00Z"

(***************************************************************************)
(* C11.  As claimed: every explicitly supplied valid RFC 3339 start or end *)
(* resolves to the same UTC instant at seconds precision (sub-second       *)
(* digits dropped, no shift), written in the form YYYY-MM-DDTHH:MM:SSZ,    *)
(* and resolving that output again yields the identical string.  An        *)
(* instant in UTC of a year before 0000 or after 9999, which an offset     *)
(* reaches from a four-digit year, has no such form: chrono writes its     *)
(* year with a sign.                                                       *)
(***************************************************************************)
\* The bounds given on the command line, each with what it resolved to.
GivenBounds ==
    (IF args.start_time.some THEN {<<args.start_time.v, parsed.start_time>>} ELSE {})
    \cup (IF args.end_time.some THEN {<<args.end_time.v, parsed.end_time>>} ELSE {})

\* The resolver's rendering of an instant in the run's generation of the code.
Render(dt) == IF variant = "main" THEN format_datetime(dt) ELSE to_rfc3339_opts(dt)

\* c from position b on is -MM-DDTHH:MM:SSZ and ends there.
TailForm(c, b) ==
    /\ Len(c) = b + 15
    /\ c[b] = "-" /\ AllDigits(c, b + 1, b + 2) /\ c[b + 3] = "-"
    /\ AllDigits(c, b + 4, b + 5) /\ c[b + 6] = "T"
    /\ AllDigits(c, b + 7, b + 8) /\ c[b + 9] = ":" /\ AllDigits(c, b + 10, b + 11)
    /\ c[b + 12] = ":" /\ AllDigits(c, b + 13, b + 14) /\ c[b + 15] = "Z"

\* c is YYYY-MM-DDTHH:MM:SSZ.
SecondsForm(c) == Len(c) = 20 /\ AllDigits(c, 1, 4) /\ TailForm(c, 5)

\* c is that form with the year written as a sign and four digits or more.
SignedYearForm(c) ==
    /\ Len(c) >= 21 /\ c[1] \in {"+", "-"}
    /\ AllDigits(c, 2, Len(c) - 16) /\ TailForm(c, Len(c) - 15)

\* The characters of the resolved string str, the rendering of the instant p.
CharsOf(str, p) ==
    {c \in {format_datetime_chars(p), to_rfc3339_opts_chars(p)} : Str(c) = str}

\* str shows the instant p to the second, and resolves to itself.
RoundTrips(str, p) ==
    \E c \in CharsOf(str, p) :
        LET q == parse_datetime(c)
        IN  /\ q.ok
            /\ q.dt.day = p.day /\ q.dt.sod = p.sod
            /\ q.dt.ms = (IF p.ms >= 1000 THEN 1000 ELSE 0)
            /\ Render(q.dt) = str

C11_AsClaimed ==
    Resolved =>
        \A g \in GivenBounds :
            LET p == parse_datetime(g[1]).dt
            IN  /\ RoundTrips(g[2], p)
                /\ \A c \in CharsOf(g[2], p) : SecondsForm(c)

\* C11, amended: every explicitly supplied valid start or end resolves to the
\* same UTC instant at seconds precision (sub-second digits dropped, no
\* shift), written as YYYY-MM-DDTHH:MM:SSZ when the UTC year is within
\* 0000..9999 and with a signed year of four digits or more otherwise;
\* resolving the output again yields the identical string, and
\* 2024-01-11T15:00:00Z resolves to 2024-01-11T15:00:00Z.
C11_RoundTrip ==
    Resolved =>
        \A g \in GivenBounds :
            LET p == parse_datetime(g[1]).dt
                y == CivilFromDays(p.day).year
            IN  /\ parse_datetime(g[1]).ok
                /\ RoundTrips(g[2], p)
                /\ \A c \in CharsOf(g[2], p) :
                       IF y >= 0 /\ y <= 9999 THEN SecondsForm(c)
                       ELSE SignedYearForm(c)
                /\ g[1] = T_1500 => g[2] = "2024-01-11T15:00:00Z"

\* A start with an offset and a fraction and an end in a leap second have
\* been resolved: the fraction is dropped, the instant kept.
C11_Witness ==
    /\ Resolved
    /\ args.start_time = Some(T_offset) /\ args.end_time = Some(T_leap)
    /\ parsed.start_time = "2024-02-29T23:59:59Z"
    /\ parsed.end_time = "2016-12-31T23:59:60Z"

(***************************************************************************)
(* C12.  As claimed: a response with a non-2xx status, and a 2xx response  *)
(* with an empty body, end the run successfully, after a diagnostic on the *)
(* error stream and with no log content on standard output; only a         *)
(* configuration failure or a transport failure ends the run as a failure. *)
(* A datetime argument that does not parse also ends the run as a failure: *)
(* a usage error of the argument parser for commands.rs, a panic of the    *)
(* unwrap in main.rs.                                                      *)
(***************************************************************************)
\* The response is one of the two non-fatal conditions.
NonFatal == GotNon2xx \/ (Got2xx /\ response.readable /\ response.body = <<>>)

\* The diagnostic of the response's condition is on the error stream.
DiagnosticWritten ==
    \E i \in 1..Len(out) :
        /\ out[i].stream = "stderr"
        /\ out[i].fmt = (IF GotNon2xx
                         THEN "Failed to retrieve logs: " \o Decimal(response.status)
                         ELSE "No logs found")

\* Standard output holds the five lines of the verbose echo or nothing, and
\* no text of a response.
NoLogContent ==
    /\ \A i \in 1..Len(out) : out[i].stream = "stdout" => out[i].text = <<>>
    /\ Len(SelectSeq(out, LAMBDA l : l.stream = "stdout"))
           = (IF parsed.verbose THEN 5 ELSE 0)

\* The run is over and failed: a non-zero exit status or a returned Err.
RunFailed == pc = "done" /\ (exit >= 1 \/ result.kind = "Err")

ConfigurationFailure ==
    requests = <<>> /\ \E n \in Required : environ[n].state # "set"
TransportFailure ==
    response.kind = "transport_error" \/ (Got2xx /\ ~response.readable)
DatetimeRejected == requests = <<>> /\ clap_rejects(args)

\* The command line was not accepted: it holds an option that the program
\* does not declare, or a start or end datetime that does not parse.
CommandLineNotAccepted ==
    requests = <<>> /\ (Args_parse(args).exit = 2 \/ clap_rejects(args))

SoftOutcome ==
    (Fetched /\ NonFatal) =>
        /\ result = Ok(<<>>)
        /\ variant = "main" => exit = 0
        /\ exit < 1
        /\ DiagnosticWritten
        /\ NoLogContent

C12_AsClaimed ==
    /\ SoftOutcome
    /\ RunFailed => (ConfigurationFailure \/ TransportFailure)

\* C12, amended: a response with a non-2xx status, and a 2xx response with an
\* empty body, end the run successfully, after a diagnostic on the error
\* stream and with no log content on standard output; a run ends as a failure
\* only on a configuration failure, on a command line that is not accepted
\* (an option or argument that the program does not declare, or a start or
\* end datetime that does not parse), or on a transport failure.
C12_SoftAndFatal ==
    /\ SoftOutcome
    /\ RunFailed =>
          (ConfigurationFailure \/ CommandLineNotAccepted \/ TransportFailure)

\* A verbose run of main.rs got a 404, whose body it does not read, and
\* ended with status 0.
C12_Witness ==
    /\ Fetched /\ variant = "main" /\ parsed.verbose
    /\ response = StatusLine(404, <<>>)
    /\ result = Ok(<<>>) /\ exit = 0
    /\ DiagnosticWritten /\ NoLogContent

(***************************************************************************)
(* C13.  In every run, whatever the outcome of the request, at most one    *)
(* HTTP request is issued, never repeated; and a run in which the          *)
(* credentials load and the arguments parse has issued exactly one request *)
(* when it ends.                                                           *)
(***************************************************************************)
CredentialsLoad == \A n \in Required : environ[n].state = "set"
ArgumentsParse == ~Args_parse(args).exits /\ ~clap_rejects(args)

C13_OneRequest ==
    /\ Len(requests) <= 1
    /\ pc \in {"send", "text"} => Len(requests) = 1
    /\ (pc = "done" /\ CredentialsLoad /\ Len(requests) # 1) => ~ArgumentsParse

\* The transport failed, and the run is over with its one request.
C13_Witness ==
    /\ pc = "done" /\ CredentialsLoad /\ ArgumentsParse
    /\ response = TransportError /\ result = Err /\ Len(requests) = 1

(***************************************************************************)
(* C14.  A malformed start or end datetime is rejected by the command-line *)
(* parsing layer before the resolver runs: the resolver is only invoked    *)
(* with absent or valid datetimes and never fails, no error and no panic   *)
(* arising inside it, for any user input.  commands.rs declares the two    *)
(* arguments as Option<DateTime<Utc>>, which the argument parser checks;   *)
(* main.rs declares them as Option<String> and parses them inside          *)
(* parse_and_check, whose unwrap panics.                                   *)
(***************************************************************************)
\* The resolver panicked: the exit status of a panic.
ResolverPanicked == exit = 101

C14_RejectedBeforeResolver ==
    /\ ~ResolverPanicked
    /\ (pc = "done" /\ DatetimeRejected) =>
           /\ exit = 2
           /\ reads = <<>>
           /\ parsed = NoParsed

(***************************************************************************)
(* C15.  The API key is never printed: two runs that differ only in the    *)
(* value of the API key, with the same other inputs and the same remote    *)
(* response, write the same lines to standard output and to the error      *)
(* stream, verbose or not; the key appears only in the Authorization       *)
(* header of the request.  A run is compared with every other through what *)
(* it writes being a function of the inputs other than the key: the other  *)
(* four variables, the arguments, the clock readings and the response.     *)
(***************************************************************************)
\* The API key is set to a value that the loader can read.
KeySet == environ[KeyName].state = "set"

\* What the arguments and the clock readings make of the query: whether a
\* datetime is rejected, and the resolved query.  The readings are padded
\* for the runs that end before the clock is read.
KeyFreeRun ==
    LET clock == reads \o <<At(0, 0, 0), At(0, 0, 0)>>
    IN  CHOOSE k \in
            {[rejected |-> \/ args.start_time.some /\ ~sp.ok
                           \/ args.end_time.some /\ ~ep.ok,
              parsed |-> IF variant = "main" THEN resolve(args, clock, sp, ep).parsed
                         ELSE Args_parsed(args, clock, sp, ep)] :
               sp \in {parse_datetime(args.start_time.v)},
               ep \in {parse_datetime(args.end_time.v)}} : TRUE

\* The endpoint as a function of the account, the bucket and the query.
KeyFreeUrl ==
    ClaimedUrl(IF parsed.commands = "List" THEN "list" ELSE "retrieve",
               environ["CF_ACCOUNT_ID"].val, parsed.start_time, parsed.end_time,
               environ["BUCKET_NAME"].val)

\* The echo of the time range.
RangeEcho ==
    IF parsed.verbose
    THEN <<Line("stdout", ""),
           Line("stdout", (IF variant = "main" THEN "Retrieving" ELSE "Retrieve")
                \o " logs from " \o Green(DebugStr(parsed.start_time))
                \o " to " \o Green(DebugStr(parsed.end_time)) \o " ")>>
    ELSE <<>>

\* The lines written for the response.
ResponseLines ==
    IF variant = "main" THEN main_response(response).out
    ELSE fetch_logs(response).out

\* All that a finished run writes, from the inputs other than the API key;
\* k is KeyFreeRun.
KeyFreeOutput(k) ==
    IF UnreadableVars # <<>>
    THEN EnvFailureLines(NotSetMessage(UnreadableVars))
    ELSE IF Args_parse(args).exits THEN Args_parse(args).out
    ELSE IF k.rejected
    THEN <<Line("stderr",
                IF variant = "main"
                THEN "thread main panicked: called Result::unwrap() on an Err value"
                ELSE "error: invalid value")>>
    ELSE RangeEcho \o EndpointEcho(parsed, KeyFreeUrl) \o ResponseLines

C15_KeyNotPrinted ==
    (pc = "done" /\ KeySet) =>
        \E k \in {KeyFreeRun} :
            /\ out = KeyFreeOutput(k)
            /\ requests # <<>> =>
                  /\ parsed = k.parsed
                  /\ requests =
                        <<[method |-> "GET", url |-> KeyFreeUrl,
                           headers |->
                             <<<<"Authorization", "Bearer " \o environ[KeyName].val>>,
                               <<"R2-Access-Key-Id", environ["R2_ACCESS_KEY_ID"].val>>,
                               <<"R2-Secret-Access-Key",
                                 environ["R2_SECRET_ACCESS_KEY"].val>>>>]>>

\* A verbose run with the second API key printed the body of a 200, and
\* sent the key in the Authorization header.
C15_Witness ==
    /\ pc = "done" /\ KeySet /\ environ[KeyName].val = "key-2"
    /\ parsed.verbose /\ response.kind = "http" /\ response.status = 200
    /\ response.readable /\ response.body = <<97, 10, 97>>
    /\ Len(out) >= 6 /\ out = KeyFreeOutput(KeyFreeRun)
    /\ requests[1].headers[1] = <<"Authorization", "Bearer key-2">>

(***************************************************************************)
(* C16.  The verbose flag is a side effect only: for every command, time   *)
(* range, account id and bucket name the endpoint returned and requested   *)
(* with verbose = true is the one with verbose = false; the echo of the    *)
(* endpoint happens before the request is issued and changes no other      *)
(* state.                                                                  *)
(***************************************************************************)
\* The endpoint the builder returns for the resolved query with its verbose
\* flag set to v.
BuiltWith(v) ==
    IF variant = "main" THEN main_endpoint([parsed EXCEPT !.verbose = v], env)
    ELSE get_endpoint(selected_command(parsed), [parsed EXCEPT !.verbose = v],
                      env).endpoint

\* The three lines of the echo of the endpoint ep.
EchoLines(ep) ==
    <<Line("stdout", ""), Line("stdout", "Accessing endpoint: " \o Green(ep)),
      Line("stdout", "")>>

\* The echo of ep has been written.
Echoed(ep) ==
    \E i \in 1..Len(out) : out[i].fmt = "Accessing endpoint: " \o Green(ep)

\* The step that builds the endpoint: the same endpoint with and without the
\* flag, the echo appended when the flag is set, nothing else changed.
BuildStep ==
    (pc = "endpoint" /\ pc' = "request") =>
        /\ endpoint' = BuiltWith(TRUE) /\ endpoint' = BuiltWith(FALSE)
        /\ out' = out \o (IF parsed.verbose THEN EchoLines(endpoint') ELSE <<>>)
        /\ UNCHANGED <<variant, environ, env, api_env, args, reads, parsed, requests,
                       response, result, exit>>

\* The step that issues the request: to the endpoint built, after the echo.
RequestStep ==
    (requests' # requests) =>
        /\ pc = "request" /\ requests = <<>>
        /\ Len(requests') = 1 /\ requests'[1].url = endpoint
        /\ endpoint = BuiltWith(TRUE) /\ endpoint = BuiltWith(FALSE)
        /\ parsed.verbose => Echoed(endpoint)
        /\ ~parsed.verbose => ~Echoed(endpoint)

C16_VerboseSideEffectOnly == [][BuildStep /\ RequestStep]_vars

\* A verbose run has echoed its endpoint and has not yet issued the request.
C16_Witness ==
    /\ pc = "request" /\ parsed.verbose /\ requests = <<>>
    /\ endpoint = BuiltWith(FALSE)
    /\ Len(out) >= 3 /\ SubSeq(out, Len(out) - 2, Len(out)) = EchoLines(endpoint)

====
